---------------------------- MODULE Spec2Model ----------------------------
(***************************************************************************)
(* A model of the sampler engine of HMC_visualization: the Mulberry32      *)
(* generator (SeededRandom), the leapfrog integrator and the HMC step, the *)
(* slice sampler and the Gibbs step, the sampler classes, and the          *)
(* Gelman-Rubin / ESS diagnostics.                                         *)
(*                                                                         *)
(* Numbers.  A JavaScript number is modelled by an integer of magnitude at *)
(* most FMax, or one of PInf, NInf, NaN; the arithmetic is IEEE's on these *)
(* (exact on the integers, overflow to an infinity, Inf - Inf = NaN,       *)
(* every comparison with NaN false).  Math.log, Math.sqrt, Math.cos and    *)
(* Math.exp are step functions with integer values and IEEE's special      *)
(* values (log 0 = -Inf, sqrt of a negative = NaN, exp(-Inf) = 0).         *)
(* A value of random() is the 32-bit numerator n of n / 2^32, kept as two  *)
(* 16-bit halves <<hi, lo>>; a probability is counted in units of          *)
(* 1 / ProbOne.                                                            *)
(***************************************************************************)
EXTENDS Integers, Sequences, FiniteSets, TLC

VARIABLES
    gen,        \* SpecRng: the SeededRandom object [seed, state]
    outs,       \* SpecRng: the values random() returned since construction / the last setSeed
    rngHist,    \* SpecRng: what was called: [sets, lastSet, prior, randn]
    lf,         \* SpecLeapfrog: a forward and backward integration
    hmc,        \* SpecHmc: a chain of hmcStep calls
    sl,         \* SpecSlice: one call of sampleSlice, loop pass by loop pass
    gb,         \* SpecGibbs: a chain of GibbsSampler.step calls
    sm,         \* SpecSamplers: two samplers built alike, and what else draws numbers
    st,         \* SpecStats: the chains given to the diagnostics
    ctl         \* SpecController: the sampling controller, and the calls made on it

vars == <<gen, outs, rngHist, lf, hmc, sl, gb, sm, st, ctl>>

\* the value of a variable that a specification does not use
Unused == <<>>

-----------------------------------------------------------------------------
(* 32-bit words as <<hi, lo>>, 16 bits each *)

Half16 == 256 * 256

RECURSIVE BitXor(_, _, _)
BitXor(a, b, n) ==
    IF n = 0 THEN 0
    ELSE (((a % 2) + (b % 2)) % 2) + 2 * BitXor(a \div 2, b \div 2, n - 1)

RECURSIVE BitOr(_, _, _)
BitOr(a, b, n) ==
    IF n = 0 THEN 0
    ELSE (IF (a % 2) = 1 \/ (b % 2) = 1 THEN 1 ELSE 0) + 2 * BitOr(a \div 2, b \div 2, n - 1)

RECURSIVE Pow2(_)
Pow2(n) == IF n = 0 THEN 1 ELSE 2 * Pow2(n - 1)

\* a ^ b
Xor32(a, b) == <<BitXor(a[1], b[1], 16), BitXor(a[2], b[2], 16)>>

\* a | c, c below 2^16
OrSmall(a, c) == <<a[1], BitOr(a[2], c, 16)>>

\* a >>> n, 0 < n < 16
Shr32(a, n) ==
    <<a[1] \div Pow2(n), (a[2] \div Pow2(n)) + (a[1] % Pow2(n)) * Pow2(16 - n)>>

\* the 32-bit product of two 16-bit numbers from its byte products: hh the
\* high bytes', mid the sum of the two mixed ones, low the low bytes'
Mul16Sum(hh, mid, low) ==
    <<hh + (mid \div 256) + ((low + (mid % 256) * 256) \div Half16),
      (low + (mid % 256) * 256) % Half16>>

\* the 32-bit product of two 16-bit numbers, by bytes
Mul16(a, b) ==
    Mul16Sum((a \div 256) * (b \div 256),
             (a \div 256) * (b % 256) + (a % 256) * (b \div 256),
             (a % 256) * (b % 256))

\* the low 32 bits of a product from the product ll of the low halves and
\* the two mixed products
ImulSum(ll, lh, hl) == <<(ll[1] + lh[2] + hl[2]) % Half16, ll[2]>>

\* Math.imul(a, b): the low 32 bits of the product
Imul(a, b) == ImulSum(Mul16(a[2], b[2]), Mul16(a[2], b[1]), Mul16(a[1], b[2]))

\* (a + b) coerced to 32 bits by the ^= that follows it
Add32(a, b) ==
    LET low == a[2] + b[2]
    IN  <<(a[1] + b[1] + (low \div Half16)) % Half16, low % Half16>>

\* ToUint32 of a state whose high part has outgrown 16 bits
ToUint32(s) == <<s[1] % Half16, s[2]>>

-----------------------------------------------------------------------------
(* SeededRandom *)

\* 0x6d2b79f5
Increment == <<27947, 31221>>

\* constructor(seed)
NewSeededRandom(seed) == [seed |-> seed, state |-> seed]

\* this.state += 0x6d2b79f5: an addition of numbers, which does not wrap
StateAfterDraw(s) ==
    LET low == s[2] + Increment[2]
    IN  <<s[1] + Increment[1] + (low \div Half16), low % Half16>>

\* t = Math.imul(t ^ (t >>> 15), t | 1)
MulberryMix1(t) == Imul(Xor32(t, Shr32(t, 15)), OrSmall(t, 1))

\* t ^= t + Math.imul(t ^ (t >>> 7), t | 61)
MulberryMix2(t) == Xor32(t, Add32(t, Imul(Xor32(t, Shr32(t, 7)), OrSmall(t, 61))))

\* (t ^ (t >>> 14)) >>> 0
MulberryOut(t) == Xor32(t, Shr32(t, 14))

\* the value random() returns from the incremented state, as a numerator of 2^32:
\*   t = Math.imul(t ^ (t >>> 15), t | 1)
\*   t ^= t + Math.imul(t ^ (t >>> 7), t | 61)
\*   return ((t ^ (t >>> 14)) >>> 0) / 4294967296
Mulberry32(s) == MulberryOut(MulberryMix2(MulberryMix1(ToUint32(s))))

\* random(): <<the value, the generator afterwards>>
Random(g) ==
    LET s == StateAfterDraw(g.state)
    IN  <<Mulberry32(s), [g EXCEPT !.state = s]>>

\* setSeed that stores the seed and leaves the state where it is
SetSeedKeepsState(g, seed) == [seed |-> seed, state |-> g.state]

\* setSeed(seed)
SetSeed(g, seed) == [seed |-> seed, state |-> seed]

\* getSeed()
GetSeed(g) == g.seed

-----------------------------------------------------------------------------
(* JavaScript numbers: integers up to FMax in magnitude, the infinities, NaN *)

FMax == 30000

PInf == FMax + 1
NInf == -(FMax + 1)
NaN == FMax + 2

IsNaN(a) == a = NaN
IsFinite(a) == a /= NaN /\ a /= PInf /\ a /= NInf

\* a result beyond the largest number is an infinity
Overflow(v) == IF v > FMax THEN PInf ELSE IF v < -FMax THEN NInf ELSE v

\* -a
FNeg(a) == IF a = NaN THEN NaN ELSE -a

\* a + b
FAdd(a, b) ==
    IF a = NaN \/ b = NaN THEN NaN
    ELSE IF a = PInf THEN (IF b = NInf THEN NaN ELSE PInf)
    ELSE IF a = NInf THEN (IF b = PInf THEN NaN ELSE NInf)
    ELSE IF b = PInf \/ b = NInf THEN b
    ELSE Overflow(a + b)

\* a - b
FSub(a, b) == FAdd(a, FNeg(b))

\* a * b
FMul(a, b) ==
    IF a = NaN \/ b = NaN THEN NaN
    ELSE IF ~IsFinite(a) \/ ~IsFinite(b)
         THEN (IF a = 0 \/ b = 0 THEN NaN
               ELSE IF (a > 0) = (b > 0) THEN PInf ELSE NInf)
    ELSE Overflow(a * b)

\* 0.5 * a and (epsilon / 2): exact on the even numbers the model computes with
FHalf(a) == IF IsFinite(a) THEN a \div 2 ELSE a

\* a < b, a > b, a >= b: false when either is NaN
FLt(a, b) == a /= NaN /\ b /= NaN /\ a < b
FGt(a, b) == FLt(b, a)
FGe(a, b) == a /= NaN /\ b /= NaN /\ a >= b

\* a === b
FEq(a, b) == a /= NaN /\ b /= NaN /\ a = b

-----------------------------------------------------------------------------
(* The values of random() and the Math functions applied to them *)

\* a value of random() is in [0, 1): <<hi, lo>> with both halves below 2^16
IsUnit(u) == u[1] \in 0..(Half16 - 1) /\ u[2] \in 0..(Half16 - 1)

UZero == <<0, 0>>

\* 1.0 - u, a fraction in (0, 1]: the numerator 2^32 - u
OneMinus(u) ==
    IF u[2] = 0 THEN <<Half16 - u[1], 0>> ELSE <<Half16 - 1 - u[1], Half16 - u[2]>>

\* Math.log of a fraction f in [0, 1]: -Infinity at 0, and below that a step
\* function whose values -2k^2 make -2 * log a perfect square:
\*   0 above e^-0.5, -2 above e^-4.5, -8 above e^-12.5, -18 below
MathLog(f) ==
    IF f = UZero THEN NInf
    ELSE IF f[1] >= 39750 THEN 0
    ELSE IF f[1] >= 728 THEN -2
    ELSE IF f[1] >= 1 THEN -8
    ELSE -18

\* Math.sqrt
MathSqrt(a) ==
    IF a = NaN \/ a = NInf THEN NaN
    ELSE IF a = PInf THEN PInf
    ELSE IF a < 0 THEN NaN
    ELSE CHOOSE r \in 0..a : r * r <= a /\ (r + 1) * (r + 1) > a

\* Math.cos(2 * Math.PI * u), rounded away from 0 (no double has cosine 0)
MathCos2Pi(u) == IF u[1] < 16384 \/ u[1] >= 49152 THEN 1 ELSE -1

\* a probability p stands for p / ProbOne
ProbOne == 128 * 128

\* e^-d in units of 1 / ProbOne, for an integer d >= 1
ExpTable == <<6027, 2217, 815, 300, 110, 40, 14, 5, 2>>

\* Math.exp(a) in units of 1 / ProbOne; above 1 only Math.min(1, .) reads it
MathExp(a) ==
    IF a = NaN THEN NaN
    ELSE IF a = PInf THEN PInf
    ELSE IF a = NInf THEN 0
    ELSE IF a > 0 THEN 2 * ProbOne
    ELSE IF a = 0 THEN ProbOne
    ELSE IF -a <= Len(ExpTable) THEN ExpTable[-a]
    ELSE 0

\* Math.min(1, e): NaN when e is NaN
MathMin1(e) == IF e = NaN THEN NaN ELSE IF e > ProbOne THEN ProbOne ELSE e

\* u < p for a value u of random() and a probability p
ULt(u, p) == p /= NaN /\ (u[1] \div (Half16 \div ProbOne)) < p

\* u * w for a value u of random() and a finite w >= 0, rounded down
UTimes(u, w) ==
    IF ~IsFinite(w) THEN FMul(IF u = UZero THEN 0 ELSE 1, w)
    ELSE (u[1] * w) \div Half16

-----------------------------------------------------------------------------
(* The source of random numbers a sampling function is given: its rng       *)
(* argument, a SeededRandom or null, and behind it Math.random, which the   *)
(* model takes to return the values of a list over and over.                *)

NullWord == <<-1, -1>>

\* rng = null
NullRng == [seed |-> NullWord, state |-> NullWord]

\* Math.random(): <<the value, Math.random afterwards>>
MathRandom(m) == <<m.seq[m.pos], [m EXCEPT !.pos = (m.pos % Len(m.seq)) + 1]>>

\* a value drawn from rng, r what random() returned: <<the value, the source afterwards>>
DrawnFromRng(src, r) == <<r[1], [src EXCEPT !.rng = r[2]]>>

\* a value drawn from Math.random, r what it returned
DrawnFromMath(src, r) == <<r[1], [src EXCEPT !.math = r[2]]>>

\* rng ? () => rng.random() : Math.random, called once
Draw(src) ==
    IF src.rng /= NullRng
    THEN DrawnFromRng(src, Random(src.rng))
    ELSE DrawnFromMath(src, MathRandom(src.math))

\* Math.sqrt(-2 * Math.log(u1)) * Math.cos(2 * Math.PI * u2)
BoxMuller(u1, u2) == FMul(MathSqrt(FMul(-2, MathLog(u1))), MathCos2Pi(u2))

\* the normal value of two draws, u1 the first value and r2 the second draw
\* with what it left behind
RandnValue(u1, r2) == <<BoxMuller(u1, r2[1]), r2[2]>>

\* const u2 = this.random(), after the draw r1 of u1
SeededRandnU2(r1) == RandnValue(r1[1], Random(r1[2]))

\* SeededRandom.randn(): <<the value, the generator afterwards>>
SeededRandn(g) == SeededRandnU2(Random(g))

\* const u2 = random(), after the draw d1 of u1
RandnU2(d1) == RandnValue(d1[1], Draw(d1[2]))

\* randn(rng) of HMCSampler.js: <<the value, the source afterwards>>
Randn(src) == RandnU2(Draw(src))

-----------------------------------------------------------------------------
(* The density oracle: Logp.getLogProbability and getLogProbabilityGradient *)
(* of the expressions the model runs on                                     *)

Oracles == {"gauss", "quartic", "flat", "cliff", "logx", "ridge", "spike"}

\* getLogProbability(x, y)
\*   gauss: exp(-(x^2 + y^2) / 2)      flat: 1
\*   quartic: exp(-(x^4 + y^4) / 4)
\*   cliff: 1 up to x = 2, 0 beyond    logx: a density negative below x = 0
\*   ridge: exp(-(x - y)^2)             spike: 1 at the origin, 0 elsewhere
\*   wall: 1, and beyond x = 30 an expression whose evaluation throws
GetLogProbability(orc, x, y) ==
    CASE orc = "gauss" -> FNeg(FHalf(FAdd(FMul(x, x), FMul(y, y))))
      [] orc = "quartic" ->
            FNeg(FHalf(FHalf(FAdd(FMul(FMul(x, x), FMul(x, x)),
                                  FMul(FMul(y, y), FMul(y, y))))))
      [] orc = "flat" -> 0
      [] orc = "cliff" -> IF x = NaN THEN NaN ELSE IF FGt(x, 2) THEN NInf ELSE 0
      [] orc = "logx" ->
            IF x = NaN \/ FLt(x, 0) THEN NaN ELSE IF x = 0 THEN NInf ELSE 0
      [] orc = "ridge" -> FNeg(FMul(FSub(x, y), FSub(x, y)))
      [] orc = "spike" ->
            IF x = NaN \/ y = NaN THEN NaN ELSE IF x = 0 /\ y = 0 THEN 0 ELSE NInf
      [] orc = "wall" -> 0

\* getLogProbabilityGradient(x, y)
GetLogProbabilityGradient(orc, x, y) ==
    CASE orc = "gauss" -> <<FNeg(x), FNeg(y)>>
      [] orc = "quartic" -> <<FNeg(FMul(x, FMul(x, x))), FNeg(FMul(y, FMul(y, y)))>>
      [] orc = "flat" -> <<0, 0>>
      [] orc = "cliff" -> <<0, 0>>
      [] orc = "logx" ->
            <<IF x = NaN \/ FLt(x, 0) THEN NaN ELSE IF x = 0 THEN PInf ELSE 0, 0>>
      [] orc = "ridge" -> <<FMul(-2, FSub(x, y)), FMul(2, FSub(x, y))>>
      [] orc = "spike" -> <<0, 0>>
      [] orc = "wall" -> <<0, 0>>

\* the evaluation of the compiled expression throws at (x, y), which
\* getLogProbability and getLogProbabilityGradient throw on as an Error
EvaluateThrows(orc, x, y) == orc = "wall" /\ FGt(x, 30)

\* U = (x, y) => -logPInstance.getLogProbability(x, y)
PotentialU(orc, x, y) == FNeg(GetLogProbability(orc, x, y))

\* { x: -dx, y: -dy } of [dx, dy]
NegatedGradient(g) == [x |-> FNeg(g[1]), y |-> FNeg(g[2])]

\* gradU = (x, y) => { x: -dx, y: -dy }
GradU(orc, x, y) == NegatedGradient(GetLogProbabilityGradient(orc, x, y))

-----------------------------------------------------------------------------
(* HMCSampler.js: leapfrogStep, generateProposal, hmcStep *)

Vec(a, b) == [x |-> a, y |-> b]

\* a leapfrog step whose second half-step reuses the gradient at the old position
LeapfrogStepOldGradient(q, p, epsilon, orc) ==
    LET grad == GradU(orc, q.x, q.y)
        p_half == Vec(FSub(p.x, FMul(FHalf(epsilon), grad.x)),
                      FSub(p.y, FMul(FHalf(epsilon), grad.y)))
        q_new == Vec(FAdd(q.x, FMul(epsilon, p_half.x)),
                     FAdd(q.y, FMul(epsilon, p_half.y)))
        p_new == Vec(FSub(p_half.x, FMul(FHalf(epsilon), grad.x)),
                     FSub(p_half.y, FMul(FHalf(epsilon), grad.y)))
    IN  [q |-> q_new, p |-> p_new]

\* { x: p.x - (epsilon / 2) * grad.x, y: p.y - (epsilon / 2) * grad.y }
HalfStepMomentum(p, epsilon, grad) ==
    Vec(FSub(p.x, FMul(FHalf(epsilon), grad.x)),
        FSub(p.y, FMul(FHalf(epsilon), grad.y)))

\* { x: q.x + epsilon * p_half.x, y: q.y + epsilon * p_half.y }
FullStepPosition(q, epsilon, p_half) ==
    Vec(FAdd(q.x, FMul(epsilon, p_half.x)), FAdd(q.y, FMul(epsilon, p_half.y)))

\* grad_new = gradU(q_new.x, q_new.y), the second half-step, and the return
LeapfrogSecondHalf(q_new, p_half, epsilon, orc) ==
    [q |-> q_new, p |-> HalfStepMomentum(p_half, epsilon, GradU(orc, q_new.x, q_new.y))]

\* the full position step from p_half, and what follows it
LeapfrogFromHalf(q, p_half, epsilon, orc) ==
    LeapfrogSecondHalf(FullStepPosition(q, epsilon, p_half), p_half, epsilon, orc)

\* leapfrogStep(q, p, epsilon, gradU)
LeapfrogStep(q, p, epsilon, orc) ==
    LeapfrogFromHalf(q, HalfStepMomentum(p, epsilon, GradU(orc, q.x, q.y)), epsilon, orc)

\* 0.5 * (p.x * p.x + p.y * p.y) + U(q.x, q.y)
Hamiltonian(q, p, orc) ==
    FAdd(FHalf(FAdd(FMul(p.x, p.x), FMul(p.y, p.y))), PotentialU(orc, q.x, q.y))

\* the loop's variables after one pass, result what leapfrogStep returned
ProposalPass(result, trajectory) ==
    [q |-> result.q, p |-> result.p, trajectory |-> Append(trajectory, result.q)]

\* for (let i = 0; i < L; i++) { leapfrogStep; trajectory.push }, on the
\* loop's variables s = [q, p, trajectory]; the trajectory, which holds the
\* start, is read so that a pass is computed before the next begins
RECURSIVE ProposalLoop(_, _, _, _, _)
ProposalLoop(s, i, L, epsilon, orc) ==
    IF i < L /\ s.trajectory /= <<>>
    THEN ProposalLoop(ProposalPass(LeapfrogStep(s.q, s.p, epsilon, orc), s.trajectory),
                      i + 1, L, epsilon, orc)
    ELSE s

\* { x: -p.x, y: -p.y }
NegatedMomentum(p) == Vec(FNeg(p.x), FNeg(p.y))

\* the momentum flip, H_proposed and the return of generateProposal, end the
\* loop's variables after the loop
ProposalReturn(q, orc, p_initial, src, end) ==
    [q_proposed |-> end.q, p_proposed |-> NegatedMomentum(end.p),
     H_initial |-> Hamiltonian(q, p_initial, orc),
     H_proposed |-> Hamiltonian(end.q, NegatedMomentum(end.p), orc),
     trajectory |-> end.trajectory,
     p_initial |-> p_initial, src |-> src]

\* generateProposal from the sampled momentum on
ProposalFrom(q, epsilon, L, orc, p_initial, src) ==
    ProposalReturn(q, orc, p_initial, src,
                   ProposalLoop([q |-> Vec(q.x, q.y), p |-> p_initial,
                                 trajectory |-> <<Vec(q.x, q.y)>>],
                                0, L, epsilon, orc))

\* p_initial = { x: px, y: py } of the two randn calls
ProposalMomentum(q, epsilon, L, orc, px, py) ==
    ProposalFrom(q, epsilon, L, orc, Vec(px[1], py[1]), py[2])

\* y: randn(rng), after the call px for x
ProposalSecondRandn(q, epsilon, L, orc, px) ==
    ProposalMomentum(q, epsilon, L, orc, px, Randn(px[2]))

\* generateProposal(q, epsilon, L, U, gradU, rng), with the source afterwards
GenerateProposal(q, epsilon, L, orc, src) ==
    ProposalSecondRandn(q, epsilon, L, orc, Randn(src))

\* the acceptance probability with the sign of the energy change the wrong way
AcceptProbWrongSign(H_initial, H_proposed) ==
    MathMin1(MathExp(FSub(H_proposed, H_initial)))

\* Math.min(1, Math.exp(-deltaH)) with deltaH = H_proposed - H_initial
AcceptProb(H_initial, H_proposed) ==
    MathMin1(MathExp(FNeg(FSub(H_proposed, H_initial))))

\* the decision written !(randomFn() >= acceptProb), which accepts on NaN
AcceptedUnlessAbove(u, acceptProb) == acceptProb = NaN \/ ULt(u, acceptProb)

\* randomFn() < acceptProb
Accepted(u, acceptProb) == ULt(u, acceptProb)

\* a step that returns no trajectory when it rejects
StepResultNoTrajectoryOnReject(q, proposal, accepted) ==
    IF accepted
    THEN [q |-> proposal.q_proposed, p |-> proposal.p_proposed,
          accepted |-> TRUE, trajectory |-> proposal.trajectory]
    ELSE [q |-> q, p |-> Vec(0, 0), accepted |-> FALSE, trajectory |-> <<>>]

\* what hmcStep returns for a decision
StepResult(q, proposal, accepted) ==
    IF accepted
    THEN [q |-> proposal.q_proposed, p |-> proposal.p_proposed,
          accepted |-> TRUE, trajectory |-> proposal.trajectory]
    ELSE [q |-> q, p |-> Vec(0, 0), accepted |-> FALSE,
          trajectory |-> proposal.trajectory]

\* the decision on the draw d of randomFn(), and the return
HmcReturn(q, proposal, d) ==
    [res |-> StepResult(q, proposal,
                        Accepted(d[1], AcceptProb(proposal.H_initial, proposal.H_proposed))),
     proposal |-> proposal, u |-> d[1], src |-> d[2]]

\* hmcStep after generateProposal
HmcDecide(q, proposal) == HmcReturn(q, proposal, Draw(proposal.src))

\* hmcStep(q, epsilon, L, U, gradU, rng): the result, with the proposal, the
\* uniform draw of the decision and the source afterwards
HmcStep(q, epsilon, L, orc, src) ==
    HmcDecide(q, GenerateProposal(q, epsilon, L, orc, src))

-----------------------------------------------------------------------------
(* sliceSampler.js: sampleSlice.  A log-density function is the closure of  *)
(* GibbsSampler.step: the oracle along one axis, the other coordinate held. *)

MAX_STEPS == 100
MAX_SHRINK_STEPS == 1000

\* logPx = (x) => getLogProbability(x, currentY), logPy = (y) => getLogProbability(nextX, y)
LogDensityFn(fn, v) ==
    IF fn.axis = "x" THEN GetLogProbability(fn.orc, v, fn.held)
    ELSE GetLogProbability(fn.orc, fn.held, v)

\* a stepping-out loop that makes one pass more
StepOutOneMore(fn, bound, logY, steps) ==
    steps <= MAX_STEPS /\ FGt(LogDensityFn(fn, bound), logY)

\* steps < MAX_STEPS && logDensityFn(bound) > logY, the condition of either
\* stepping-out loop
StepOutMore(fn, bound, logY, steps) ==
    steps < MAX_STEPS /\ FGt(LogDensityFn(fn, bound), logY)

\* the test of while (steps < MAX_STEPS && logDensityFn(L) > logY) and, where
\* it holds, { L -= w; steps++ }, on the loop's variables s = [bound, steps];
\* s.exited says that the test has failed
LeftPass(fn, w, logY, s) ==
    IF s.exited THEN s
    ELSE IF StepOutMore(fn, s.bound, logY, s.steps)
    THEN [s EXCEPT !.bound = FSub(@, w), !.steps = @ + 1]
    ELSE [s EXCEPT !.exited = TRUE]

\* the test of while (steps < MAX_STEPS && logDensityFn(R) > logY) and, where
\* it holds, { R += w; steps++ }
RightPass(fn, w, logY, s) ==
    IF s.exited THEN s
    ELSE IF StepOutMore(fn, s.bound, logY, s.steps)
    THEN [s EXCEPT !.bound = FAdd(@, w), !.steps = @ + 1]
    ELSE [s EXCEPT !.exited = TRUE]

\* n tests of the first loop, by halves
RECURSIVE LeftPasses(_, _, _, _, _)
LeftPasses(fn, w, logY, s, n) ==
    IF n = 0 \/ s.exited THEN s
    ELSE IF n = 1 THEN LeftPass(fn, w, logY, s)
    ELSE LeftPasses(fn, w, logY, LeftPasses(fn, w, logY, s, n \div 2), n - (n \div 2))

\* n tests of the second loop, by halves
RECURSIVE RightPasses(_, _, _, _, _)
RightPasses(fn, w, logY, s, n) ==
    IF n = 0 \/ s.exited THEN s
    ELSE IF n = 1 THEN RightPass(fn, w, logY, s)
    ELSE RightPasses(fn, w, logY, RightPasses(fn, w, logY, s, n \div 2), n - (n \div 2))

\* while (steps < MAX_STEPS && logDensityFn(L) > logY) { L -= w; steps++ }:
\* the loop tests its condition MAX_STEPS + 1 times at most
StepOutLeft(fn, L, w, logY, steps) ==
    LeftPasses(fn, w, logY, [bound |-> L, steps |-> steps, exited |-> FALSE],
               MAX_STEPS + MAX_STEPS)

\* while (steps < MAX_STEPS && logDensityFn(R) > logY) { R += w; steps++ }
StepOutRight(fn, R, w, logY, steps) ==
    RightPasses(fn, w, logY, [bound |-> R, steps |-> steps, exited |-> FALSE],
                MAX_STEPS + MAX_STEPS)

\* the shrinkage that moves the bound on the other side of x0
ShrinkTestOtherSide(fn, x0, logY, s, x1, src) ==
    IF FGe(LogDensityFn(fn, x1), logY)
    THEN [s EXCEPT !.returned = TRUE, !.x = x1, !.src = src]
    ELSE IF FLt(x1, x0)
    THEN [s EXCEPT !.R = x1, !.src = src, !.shrinkSteps = @ + 1]
    ELSE [s EXCEPT !.L = x1, !.src = src, !.shrinkSteps = @ + 1]

\* if (logDensityFn(x1) >= logY) return x1; if (x1 < x0) L = x1; else R = x1;
\* shrinkSteps++
ShrinkTest(fn, x0, logY, s, x1, src) ==
    IF FGe(LogDensityFn(fn, x1), logY)
    THEN [s EXCEPT !.returned = TRUE, !.x = x1, !.src = src]
    ELSE IF FLt(x1, x0)
    THEN [s EXCEPT !.L = x1, !.src = src, !.shrinkSteps = @ + 1]
    ELSE [s EXCEPT !.R = x1, !.src = src, !.shrinkSteps = @ + 1]

\* const x1 = L + random() * (R - L), d the draw
ShrinkDraw(fn, x0, logY, s, d) ==
    ShrinkTest(fn, x0, logY, s, FAdd(s.L, UTimes(d[1], FSub(s.R, s.L))), d[2])

\* one pass of while (shrinkSteps < MAX_SHRINK_STEPS) { ... } over the loop's
\* variables; s.returned says that the loop has returned x1
ShrinkPass(fn, x0, logY, s) ==
    IF s.returned \/ ~(s.shrinkSteps < MAX_SHRINK_STEPS) THEN s
    ELSE ShrinkDraw(fn, x0, logY, s, Draw(s.src))

\* n passes of the loop, by halves
RECURSIVE ShrinkPasses(_, _, _, _, _)
ShrinkPasses(fn, x0, logY, s, n) ==
    IF n = 0 \/ s.returned THEN s
    ELSE IF n = 1 THEN ShrinkPass(fn, x0, logY, s)
    ELSE ShrinkPasses(fn, x0, logY, ShrinkPasses(fn, x0, logY, s, n \div 2),
                      n - (n \div 2))

\* the value the loop returned, or the fallback return x0 after it; end the
\* loop's variables when it is left
ShrinkageReturn(x0, end) ==
    [x |-> IF end.returned THEN end.x ELSE x0, src |-> end.src,
     shrinkSteps |-> end.shrinkSteps, fallback |-> ~end.returned,
     L |-> end.L, R |-> end.R]

\* the shrinkage loop, and the fallback to x0 after it
Shrinkage(fn, x0, L, R, logY, src) ==
    ShrinkageReturn(x0, ShrinkPasses(fn, x0, logY,
                                     [L |-> L, R |-> R, src |-> src, shrinkSteps |-> 0,
                                      returned |-> FALSE, x |-> x0],
                                     MAX_SHRINK_STEPS))

\* what sampleSlice returns, with what its loops did: the level, the interval
\* [L0, R0] placed around x0, the interval [L1, R1] after stepping out, and
\* end, what the shrinkage did
SliceReturn(logY, L0, R0, left, right, end) ==
    [x |-> end.x, src |-> end.src, logY |-> logY, L0 |-> L0, R0 |-> R0,
     L1 |-> left.bound, R1 |-> right.bound,
     leftSteps |-> left.steps, rightSteps |-> right.steps,
     shrinkSteps |-> end.shrinkSteps, fallback |-> end.fallback,
     L2 |-> end.L, R2 |-> end.R]

\* the shrinkage on the interval the two stepping-out loops left
SliceShrink(fn, x0, logY, L0, R0, left, right, src) ==
    SliceReturn(logY, L0, R0, left, right,
                Shrinkage(fn, x0, left.bound, right.bound, logY, src))

\* let L = x0 - u; let R = x0 + (w - u)
InitialLeft(x0, u) == FSub(x0, u)
InitialRight(x0, w, u) == FAdd(x0, FSub(w, u))

\* L, R and the two stepping-out loops
SliceStepOut(fn, x0, w, logY, u, src) ==
    SliceShrink(fn, x0, logY, InitialLeft(x0, u), InitialRight(x0, w, u),
                StepOutLeft(fn, InitialLeft(x0, u), w, logY, 0),
                StepOutRight(fn, InitialRight(x0, w, u), w, logY, 0), src)

\* const u = random() * w, d2 the draw
SliceInterval(fn, x0, w, logY, d2) ==
    SliceStepOut(fn, x0, w, logY, UTimes(d2[1], w), d2[2])

\* const e = -Math.log(1.0 - random()); const logY = logPx0 - e, u1 the value drawn
SliceLogY(fn, x0, u1) == FSub(LogDensityFn(fn, x0), FNeg(MathLog(OneMinus(u1))))

\* the slice level from the draw d1, and the draw of u
SliceLevel(fn, x0, w, d1) ==
    SliceInterval(fn, x0, w, SliceLogY(fn, x0, d1[1]), Draw(d1[2]))

\* sampleSlice(logDensityFn, x0, w, rng): the value returned, with the source
\* afterwards and what the loops did
SampleSlice(fn, x0, w, src) == SliceLevel(fn, x0, w, Draw(src))

-----------------------------------------------------------------------------
(* GibbsSampler.js *)

\* the width 1.0 that step gives sampleSlice; a Gibbs position counts quarters
SliceWidth == 4

\* the return of step: nextX = sx.x, nextY = sy.x
GibbsReturn(q, sx, sy) ==
    [res |-> [q |-> Vec(sx.x, sy.x), p |-> Vec(0, 0), accepted |-> TRUE,
              trajectory |-> <<Vec(q.x, q.y), Vec(sx.x, q.y), Vec(sx.x, sy.x)>>],
     sx |-> sx, sy |-> sy, src |-> sy.src]

\* the update of y that holds the old x: logPy = (y) => getLogProbability(currentX, y)
GibbsUpdateYOldX(q, orc, sx) ==
    GibbsReturn(q, sx, SampleSlice([orc |-> orc, axis |-> "y", held |-> q.x],
                                   q.y, SliceWidth, sx.src))

\* the update of y after the update sx of x:
\* logPy = (y) => getLogProbability(nextX, y); nextY = sampleSlice(logPy, currentY, 1.0, this.rng)
GibbsUpdateY(q, orc, sx) ==
    GibbsReturn(q, sx, SampleSlice([orc |-> orc, axis |-> "y", held |-> sx.x],
                                   q.y, SliceWidth, sx.src))

\* GibbsSampler.step(currentState, logPInstance) on this.rng: the result, with
\* the two slice samples and the source afterwards
GibbsStep(q, orc, src) ==
    GibbsUpdateY(q, orc, SampleSlice([orc |-> orc, axis |-> "x", held |-> q.y],
                                     q.x, SliceWidth, src))

-----------------------------------------------------------------------------
(* BaseSampler.js, and the classes HMCSampler and GibbsSampler *)

\* a parameter that is not given (undefined)
Undef == -1

\* the step size 0.1 (a step size counts twentieths) and the 10 steps that
\* the HMCSampler constructor falls back to
DefaultEpsilon == 2
DefaultL == 10

\* v || fallback takes the fallback for undefined, 0 and NaN
Falsy(v) == v = Undef \/ v = 0 \/ v = NaN

\* BaseSampler.setSeed(seed), seed a number or null
SamplerSetSeed(s, seed) ==
    [s EXCEPT !.seed = seed,
              !.rng = IF seed /= NullWord THEN NewSeededRandom(seed) ELSE NullRng]

\* new HMCSampler(params, seed)
NewHMCSampler(params, seed) ==
    SamplerSetSeed([kind |-> "hmc",
                    epsilon |-> IF Falsy(params.epsilon) THEN DefaultEpsilon
                                ELSE params.epsilon,
                    L |-> IF Falsy(params.L) THEN DefaultL ELSE params.L,
                    seed |-> NullWord, rng |-> NullRng], seed)

\* new GibbsSampler(params, seed)
NewGibbsSampler(params, seed) ==
    SamplerSetSeed([kind |-> "gibbs", epsilon |-> params.epsilon, L |-> params.L,
                    seed |-> NullWord, rng |-> NullRng], seed)

\* setParams(params) of either class
SamplerSetParams(s, params) ==
    [s EXCEPT !.epsilon = IF params.epsilon /= Undef THEN params.epsilon ELSE @,
              !.L = IF params.L /= Undef THEN params.L ELSE @]

\* the sampler and Math.random after a step that returned r
SamplerStepped(s, r) ==
    [res |-> r.res, sampler |-> [s EXCEPT !.rng = r.src.rng], math |-> r.src.math]

\* a step that draws from Math.random whatever the sampler's rng is
SamplerStepShared(s, currentState, orc, m) ==
    SamplerStepped(s, IF s.kind = "hmc"
                      THEN HmcStep(currentState.q, s.epsilon, s.L, orc,
                                   [rng |-> NullRng, math |-> m])
                      ELSE GibbsStep(currentState.q, orc, [rng |-> NullRng, math |-> m]))

\* step(currentState, logPInstance) of either class, Math.random being m:
\* the result, the sampler afterwards and Math.random afterwards
SamplerStep(s, currentState, orc, m) ==
    SamplerStepped(s, IF s.kind = "hmc"
                      THEN HmcStep(currentState.q, s.epsilon, s.L, orc,
                                   [rng |-> s.rng, math |-> m])
                      ELSE GibbsStep(currentState.q, orc, [rng |-> s.rng, math |-> m]))

-----------------------------------------------------------------------------
(* statistics.js: calculateGelmanRubin, calculateESS.  A number is an exact
   fraction <<numerator, denominator>> in lowest terms, the denominator
   positive; <<1, 0>> is Infinity, <<-1, 0>> is -Infinity and <<0, 0>> is NaN.
   Rounding and the sign of zero are left out. *)

RECURSIVE Gcd(_, _)
Gcd(a, b) == IF b = 0 THEN a ELSE Gcd(b, a % b)

Abs(a) == IF a < 0 THEN -a ELSE a

Sign(a) == IF a < 0 THEN -1 ELSE IF a > 0 THEN 1 ELSE 0

\* n / d in lowest terms, g the greatest common divisor of |n| and |d|
Lowest(n, d, g) == <<(Sign(d) * n) \div g, Abs(d) \div g>>

\* the number n / d of integers n and d
Ratio(n, d) == IF d = 0 THEN <<Sign(n), 0>> ELSE Lowest(n, d, Gcd(Abs(n), Abs(d)))

QNaN == <<0, 0>>
QInf == <<1, 0>>
QInt(i) == <<i, 1>>

\* a + b
QAdd(a, b) ==
    IF a[2] = 0 /\ b[2] = 0 THEN (IF a[1] = b[1] THEN a ELSE QNaN)
    ELSE Ratio(a[1] * b[2] + b[1] * a[2], a[2] * b[2])

\* a - b
QSub(a, b) == QAdd(a, <<-b[1], b[2]>>)

\* a * b
QMul(a, b) == Ratio(a[1] * b[1], a[2] * b[2])

\* 1 / b
QInv(b) ==
    IF b[2] = 0 THEN (IF b[1] = 0 THEN QNaN ELSE QInt(0))
    ELSE IF b[1] = 0 THEN QInf ELSE Ratio(b[2], b[1])

\* a / b
QDiv(a, b) == QMul(a, QInv(b))

\* a ** 2
QSquare(a) == QMul(a, a)

\* a === 0
QIsZero(a) == a[1] = 0 /\ a[2] /= 0

\* a > 0
QPositive(a) == a[1] > 0

\* a < b
QLess(a, b) ==
    IF a = QNaN \/ b = QNaN THEN FALSE
    ELSE IF a[2] = 0 \/ b[2] = 0 THEN a /= b /\ (a = <<-1, 0>> \/ b = QInf)
    ELSE a[1] * b[2] < b[1] * a[2]

\* Math.min(a, b)
QMin(a, b) == IF a = QNaN \/ b = QNaN THEN QNaN ELSE IF QLess(b, a) THEN b ELSE a

\* the number r >= 0 is held as its square: Math.sqrt(v)
MathSqrtOf(v) == [square |-> IF v[1] < 0 THEN QNaN ELSE v]

\* the numbers 1 and Infinity as results[dim]
RhatOne == [square |-> QInt(1)]
RhatInfinity == [square |-> QInf]

\* values.reduce((a, b) => a + b, 0) over a sequence of numbers
RECURSIVE QSum(_)
QSum(qs) == IF qs = <<>> THEN QInt(0) ELSE QAdd(QSum(SubSeq(qs, 1, Len(qs) - 1)), qs[Len(qs)])

\* a value of JavaScript is [kind, items]: null, undefined, the number 0, an
\* object that is no array, or an array of items
JsValue(kind) == [kind |-> kind, items |-> <<>>]
JsArray(items) == [kind |-> "array", items |-> items]

\* !v
Not(v) == v.kind \in {"null", "undefined", "zero"}

\* Array.isArray(v)
IsArray(v) == v.kind = "array"

\* return null
Null == [kind |-> "null"]

\* Math.min(...chains.map((c) => c.length))
RECURSIVE MinLength(_)
MinLength(chains) ==
    IF Len(chains) = 1 THEN Len(chains[1].items)
    ELSE IF Len(chains[Len(chains)].items) < MinLength(SubSeq(chains, 1, Len(chains) - 1))
         THEN Len(chains[Len(chains)].items)
         ELSE MinLength(SubSeq(chains, 1, Len(chains) - 1))

\* chain.slice(-n): the last n samples
SliceLast(chain, n) == SubSeq(chain, Len(chain) - n + 1, Len(chain))

\* chain.slice(0, n)
SliceFirst(chain, n) == SubSeq(chain, 1, n)

\* chain.slice(0, n).map((sample) => sample[dim])
DimValues(chain, n, dim) == [i \in 1..n |-> QInt(SliceFirst(chain, n)[i][dim])]

\* values.reduce((acc, val) => acc + (val - mean) ** 2, 0)
SquaredDeviations(values, mean) ==
    QSum([i \in DOMAIN values |-> QSquare(QSub(values[i], mean))])

\* computeStats after mean
StatsWithMean(values, n, mean) ==
    [mean |-> mean,
     variance |-> QDiv(SquaredDeviations(values, mean), QInt(n - 1))]

\* computeStats(values) of calculateGelmanRubin
ComputeStats(values, n) == StatsWithMean(values, n, QDiv(QSum(values), QInt(n)))

\* results[dim] from B and W
RhatFrom(B, W, n) ==
    IF QIsZero(W) THEN (IF QIsZero(B) THEN RhatOne ELSE RhatInfinity)
    ELSE MathSqrtOf(QDiv(QAdd(QMul(QDiv(QInt(n - 1), QInt(n)), W),
                              QMul(QDiv(QInt(1), QInt(n)), B)), W))

\* B, W and results[dim] from chainStats and overallMean
RhatFromMeans(chainStats, overallMean, n, m) ==
    RhatFrom(QMul(QDiv(QInt(n), QInt(m - 1)),
                  SquaredDeviations([j \in 1..m |-> chainStats[j].mean], overallMean)),
             QDiv(QSum([j \in 1..m |-> chainStats[j].variance]), QInt(m)), n)

\* overallMean and what follows it, from chainStats
RhatFromStats(chainStats, n, m) ==
    RhatFromMeans(chainStats,
                  QDiv(QSum([j \in 1..m |-> chainStats[j].mean]), QInt(m)), n, m)

\* the body of ['x', 'y'].forEach((dim) => ...) of calculateGelmanRubin
GelmanRubinDim(chains, n, m, dim) ==
    RhatFromStats([j \in 1..m |-> ComputeStats(DimValues(chains[j].items, n, dim), n)],
                  n, m)

\* calculateGelmanRubin from n on
GelmanRubinFrom(chains, n) ==
    IF n < 2 THEN Null
    ELSE [kind |-> "object",
          x |-> GelmanRubinDim(chains, n, Len(chains), "x"),
          y |-> GelmanRubinDim(chains, n, Len(chains), "y")]

\* !chain || chain.length < 2
ChainLacksData(chain) == Not(chain) \/ Len(chain.items) < 2

\* a first test that lets one chain through
GelmanRubinArgsInvalidOne(chains) ==
    Not(chains) \/ ~IsArray(chains) \/ Len(chains.items) < 1

\* !chains || !Array.isArray(chains) || chains.length < 2
GelmanRubinArgsInvalid(chains) ==
    Not(chains) \/ ~IsArray(chains) \/ Len(chains.items) < 2

\* calculateGelmanRubin(chains)
CalculateGelmanRubin(chains) ==
    IF GelmanRubinArgsInvalid(chains) THEN Null
    ELSE IF \E j \in 1..Len(chains.items) : ChainLacksData(chains.items[j]) THEN Null
    ELSE GelmanRubinFrom(chains.items, MinLength(chains.items))

\* perChainStats of one chain after mean: gamma0 has the denominator n
EssStatsWithMean(chainOps, n, mean) ==
    [mean |-> mean, gamma0 |-> QDiv(SquaredDeviations(chainOps, mean), QInt(n))]

\* perChainStats of one chain
EssChainStats(chainOps, n) == EssStatsWithMean(chainOps, n, QDiv(QSum(chainOps), QInt(n)))

\* sumCross of getRhoK: the sum over t = 0 .. n - k - 1
SumCross(chainOps, mu_j, n, k) ==
    QSum([t \in 1..(n - k) |->
             QMul(QSub(chainOps[t], mu_j), QSub(chainOps[t + k], mu_j))])

\* getRhoK(k); c holds values2D, perChainStats, n, m and gamma0Pooled
GetRhoK(c, k) ==
    QDiv(QDiv(QSum([j \in 1..c.m |->
                       QDiv(SumCross(c.values2D[j], c.perChainStats[j].mean, c.n, k),
                            QInt(c.n))]),
              QInt(c.m)),
         c.gamma0Pooled)

\* the truncation loop from t and sumRho on: sumRho when it ends
RECURSIVE GeyerLoop(_, _, _)

\* the body of the loop after Gamma_t
GeyerPass(c, t, sumRho, Gamma_t) ==
    IF QPositive(Gamma_t) THEN GeyerLoop(c, t + 1, QAdd(sumRho, Gamma_t)) ELSE sumRho

\* while (2 * t < maxLag) { ... }, maxLag = Math.floor(n / 2)
GeyerLoop(c, t, sumRho) ==
    IF 2 * t < c.n \div 2
    THEN GeyerPass(c, t, sumRho, QAdd(GetRhoK(c, 2 * t - 1), GetRhoK(c, 2 * t)))
    ELSE sumRho

\* tauInt, ess and the clipped return value, from sumRho
EssFromSumRho(sumRho, totalSamples) ==
    QMin(QDiv(QInt(totalSamples), QAdd(QInt(1), QMul(QInt(2), sumRho))),
         QInt(totalSamples))

\* computeESSForDimension from gamma0Pooled on
EssFromPooled(c) ==
    IF QIsZero(c.gamma0Pooled) THEN QInt(c.m * c.n)
    ELSE EssFromSumRho(GeyerLoop(c, 1, QInt(0)), c.m * c.n)

\* computeESSForDimension from perChainStats on
EssFromStats(values2D, perChainStats, n, m) ==
    EssFromPooled([values2D |-> values2D, perChainStats |-> perChainStats, n |-> n,
                   m |-> m,
                   gamma0Pooled |->
                       QDiv(QSum([j \in 1..m |-> perChainStats[j].gamma0]), QInt(m))])

\* computeESSForDimension(values2D)
ComputeESSForDimension(values2D, n, m) ==
    EssFromStats(values2D, [j \in 1..m |-> EssChainStats(values2D[j], n)], n, m)

\* the body of ['x', 'y'].forEach((dim) => ...) of calculateESS
EssDim(chains, n, m, dim) ==
    ComputeESSForDimension([j \in 1..m |-> DimValues(chains[j].items, n, dim)], n, m)

\* calculateESS from n on
EssFrom(chains, n) ==
    IF n < 2 THEN Null
    ELSE [kind |-> "object",
          x |-> EssDim(chains, n, Len(chains), "x"),
          y |-> EssDim(chains, n, Len(chains), "y")]

\* !chains || !Array.isArray(chains) || chains.length < 1
EssArgsInvalid(chains) ==
    Not(chains) \/ ~IsArray(chains) \/ Len(chains.items) < 1

\* calculateESS(chains)
CalculateESS(chains) ==
    IF EssArgsInvalid(chains) THEN Null
    ELSE IF \E j \in 1..Len(chains.items) : ChainLacksData(chains.items[j]) THEN Null
    ELSE EssFrom(chains.items, MinLength(chains.items))

-----------------------------------------------------------------------------
(* SpecRng: one SeededRandom, drawn from and reseeded in any order *)

MaxDraws == 4
MaxSets == 2

Seeds == {<<0, 0>>, <<0, 42>>, <<1, 57920>>, <<65535, 65535>>}

\* the variables SpecRng leaves alone
notRng == <<lf, hmc, sl, gb, sm, st, ctl>>

RngInit ==
    /\ \E s \in Seeds :
          /\ gen = NewSeededRandom(s)
          /\ rngHist = [sets |-> 0, lastSet |-> s, prior |-> 0, randn |-> 0]
    /\ outs = <<>>
    /\ lf = Unused
    /\ hmc = Unused
    /\ sl = Unused
    /\ gb = Unused
    /\ sm = Unused
    /\ st = Unused
    /\ ctl = Unused

\* random()
RngRandom ==
    /\ Len(outs) < MaxDraws
    /\ LET r == Random(gen)
       IN  gen' = r[2] /\ outs' = Append(outs, r[1])
    /\ UNCHANGED <<rngHist, notRng>>

\* randn(): two calls of random() and the Box-Muller value
RngRandn ==
    /\ Len(outs) + 2 <= MaxDraws
    /\ LET r1 == Random(gen)
           r2 == Random(r1[2])
           z == SeededRandn(gen)
       IN  /\ gen' = z[2]
           /\ outs' = outs \o <<r1[1], r2[1]>>
           /\ rngHist' = [rngHist EXCEPT !.randn = z[1]]
    /\ UNCHANGED notRng

\* setSeed(s)
RngSetSeed ==
    /\ rngHist.sets < MaxSets
    /\ \E s \in Seeds :
          /\ gen' = SetSeed(gen, s)
          /\ rngHist' = [rngHist EXCEPT !.sets = @ + 1, !.lastSet = s,
                                        !.prior = @ + Len(outs)]
    /\ outs' = <<>>
    /\ UNCHANGED notRng

RngNext == RngRandom \/ RngRandn \/ RngSetSeed

SpecRng == RngInit /\ [][RngNext]_vars

\* the first k values of random() of a new SeededRandom(s)
RECURSIVE FreshOutputs(_, _)
FreshOutputs(g, k) ==
    IF k = 0 THEN <<>>
    ELSE LET r == Random(g) IN <<r[1]>> \o FreshOutputs(r[2], k - 1)

\* C5: after setSeed(s), whatever was drawn before under whatever seed, the
\* values random() returns are those of a new SeededRandom(s), one for one,
\* and getSeed() returns s.
ReseedResets ==
    rngHist.sets > 0 =>
        /\ GetSeed(gen) = rngHist.lastSet
        /\ outs = FreshOutputs(NewSeededRandom(rngHist.lastSet), Len(outs))

\* a generator drawn from under one seed, reseeded with another and drawn from again
ReseedResetsWitness ==
    /\ rngHist.sets > 0
    /\ rngHist.prior >= 2
    /\ Len(outs) >= 3
    /\ rngHist.lastSet = <<0, 42>>
    /\ outs[1] = <<39393, 61308>>

-----------------------------------------------------------------------------
(* SpecLeapfrog: L steps forward, the momentum negated, L steps back, the   *)
(* momentum negated again                                                   *)

MaxLfL == 3

EpsVals == {2, 4}
LfCoords == {-2, 0, 1}
LfOracles == {"gauss", "quartic", "flat"}

notLf == <<gen, outs, rngHist, hmc, sl, gb, sm, st, ctl>>

FiniteVec(v) == IsFinite(v.x) /\ IsFinite(v.y)

LfInit ==
    /\ \E x0 \in LfCoords, y0 \in LfCoords, px \in LfCoords, py \in LfCoords,
          epsilon \in EpsVals, orc \in LfOracles, L \in 1..MaxLfL :
          lf = [q0 |-> Vec(x0, y0), p0 |-> Vec(px, py), epsilon |-> epsilon,
                orc |-> orc, L |-> L, q |-> Vec(x0, y0), p |-> Vec(px, py),
                k |-> 0, phase |-> "forward", turn |-> Vec(x0, y0), exact |-> TRUE]
    /\ gen = Unused
    /\ outs = Unused
    /\ rngHist = Unused
    /\ hmc = Unused
    /\ sl = Unused
    /\ gb = Unused
    /\ sm = Unused
    /\ st = Unused
    /\ ctl = Unused

\* one leapfrogStep of lf
LfStepped ==
    LET r == LeapfrogStep(lf.q, lf.p, lf.epsilon, lf.orc)
    IN  [lf EXCEPT !.q = r.q, !.p = r.p, !.k = @ + 1,
                   !.exact = @ /\ FiniteVec(r.q) /\ FiniteVec(r.p)]

LfForward ==
    /\ lf.phase = "forward" /\ lf.k < lf.L
    /\ lf' = LfStepped
    /\ UNCHANGED notLf

LfTurn ==
    /\ lf.phase = "forward" /\ lf.k = lf.L
    /\ lf' = [lf EXCEPT !.p = Vec(FNeg(lf.p.x), FNeg(lf.p.y)), !.k = 0,
                        !.phase = "backward", !.turn = lf.q]
    /\ UNCHANGED notLf

LfBackward ==
    /\ lf.phase = "backward" /\ lf.k < lf.L
    /\ lf' = LfStepped
    /\ UNCHANGED notLf

LfFinish ==
    /\ lf.phase = "backward" /\ lf.k = lf.L
    /\ lf' = [lf EXCEPT !.p = Vec(FNeg(lf.p.x), FNeg(lf.p.y)), !.phase = "done"]
    /\ UNCHANGED notLf

LfNext == LfForward \/ LfTurn \/ LfBackward \/ LfFinish

SpecLeapfrog == LfInit /\ [][LfNext]_vars

\* C4: L leapfrog steps, the momentum negated, L more steps and the momentum
\* negated again end where they began, position and momentum, as long as
\* the arithmetic was exact (no number overflowed).
LeapfrogReversible ==
    (lf.phase = "done" /\ lf.exact) => (lf.q = lf.q0 /\ lf.p = lf.p0)

\* a trajectory in a curved potential that went somewhere and came back
LeapfrogReversibleWitness ==
    /\ lf.phase = "done" /\ lf.exact
    /\ lf.orc = "quartic" /\ lf.L >= 2
    /\ lf.turn /= lf.q0
    /\ lf.p0 /= Vec(0, 0)

-----------------------------------------------------------------------------
(* SpecHmc: hmcStep called on a position, and again on the position it      *)
(* returned, with Math.random scripted or with a SeededRandom               *)

MaxL == 2
MaxHmcSteps == 2
ScriptLen == 3

\* values of random(): 0, about 0.0001, about 0.015, the largest below 1
UVals == {UZero, <<8, 0>>, <<1000, 0>>, <<Half16 - 1, Half16 - 1>>}

HmcStarts == {Vec(0, 0), Vec(-2, 4)}

\* the step size 0.1
HmcEps == {2}

\* the densities hmcStep runs on: flat is cliff left of x = 2
HmcOracles == {"gauss", "quartic", "cliff", "logx"}

\* Math.random returning the values of a list in turn, and no rng
Scripted(seq) == [rng |-> NullRng, math |-> [seq |-> seq, pos |-> 1]]

\* a SeededRandom as rng, Math.random unused
Seeded(seed) == [rng |-> NewSeededRandom(seed), math |-> [seq |-> <<UZero>>, pos |-> 1]]

HmcSources ==
    {Scripted(seq) : seq \in [1..ScriptLen -> UVals]} \cup {Seeded(s) : s \in Seeds}

notHmc == <<gen, outs, rngHist, lf, sl, gb, sm, st, ctl>>

HmcInit ==
    /\ \E q \in HmcStarts, epsilon \in HmcEps, L \in 0..MaxL, orc \in HmcOracles :
          hmc = [q |-> q, epsilon |-> epsilon, L |-> L, orc |-> orc, steps |-> 0,
                 done |-> FALSE, src |-> Unused, out |-> Unused]
    /\ gen = Unused
    /\ outs = Unused
    /\ rngHist = Unused
    /\ lf = Unused
    /\ sl = Unused
    /\ gb = Unused
    /\ sm = Unused
    /\ st = Unused
    /\ ctl = Unused

\* hmcStep(q, epsilon, L, U, gradU, rng)
HmcCall ==
    /\ ~hmc.done /\ hmc.steps < MaxHmcSteps
    /\ \E src \in HmcSources :
          hmc' = [hmc EXCEPT !.done = TRUE, !.steps = @ + 1, !.src = src,
                             !.out = HmcStep(hmc.q, hmc.epsilon, hmc.L, hmc.orc, src)]
    /\ UNCHANGED notHmc

\* the caller makes the returned q its current position
HmcContinue ==
    /\ hmc.done
    /\ hmc' = [hmc EXCEPT !.done = FALSE, !.q = hmc.out.res.q, !.src = Unused,
                        !.out = Unused]
    /\ UNCHANGED notHmc

HmcNext == HmcCall \/ HmcContinue

SpecHmc == HmcInit /\ [][HmcNext]_vars

\* the position and momentum after n leapfrog steps from (q, p)
RECURSIVE AfterLeapfrogs(_, _, _, _)
AfterLeapfrogs(s, epsilon, orc, n) ==
    IF n = 0 THEN s
    ELSE AfterLeapfrogs(LeapfrogStep(s.q, s.p, epsilon, orc), epsilon, orc, n - 1)

\* where the L leapfrog steps of the last call ended
HmcEnd ==
    AfterLeapfrogs([q |-> hmc.q, p |-> hmc.out.proposal.p_initial],
                   hmc.epsilon, hmc.orc, hmc.L)

\* C1: one HMC step returns a trajectory of exactly L + 1 points that starts
\* at q0; accepted, q is the last trajectory point, the position after L
\* leapfrog steps, and p the negated final momentum; rejected, q is q0, p is
\* (0, 0) and the trajectory is still the whole proposed path.
HmcStepShape ==
    hmc.done =>
        LET res == hmc.out.res
        IN  /\ Len(res.trajectory) = hmc.L + 1
            /\ res.trajectory[1] = hmc.q
            /\ res.trajectory[hmc.L + 1] = HmcEnd.q
            /\ res.accepted =>
                  /\ res.q = res.trajectory[hmc.L + 1]
                  /\ res.p = Vec(FNeg(HmcEnd.p.x), FNeg(HmcEnd.p.y))
            /\ ~res.accepted => (res.q = hmc.q /\ res.p = Vec(0, 0))

\* a rejected step whose trajectory went away from q0
HmcStepShapeWitness ==
    /\ hmc.done /\ ~hmc.out.res.accepted
    /\ hmc.L = MaxL
    /\ hmc.out.res.trajectory[hmc.L + 1] /= hmc.q
    /\ hmc.steps = 2

\* the source after n draws
RECURSIVE AfterDraws(_, _)
AfterDraws(src, n) == IF n = 0 THEN src ELSE AfterDraws(Draw(src)[2], n - 1)

\* the uniform draw of the last call's decision: the one after the four of the momentum
HmcU == Draw(AfterDraws(hmc.src, 4))[1]

\* H0, at q0 and the momentum drawn; H1, at the end of the trajectory with
\* the momentum negated
HmcH0 == Hamiltonian(hmc.q, hmc.out.proposal.p_initial, hmc.orc)
HmcH1 == Hamiltonian(HmcEnd.q, Vec(FNeg(HmcEnd.p.x), FNeg(HmcEnd.p.y)), hmc.orc)

\* u < min(1, exp(H0 - H1))
MetropolisRule(u, H0, H1) == ULt(u, MathMin1(MathExp(FSub(H0, H1))))

\* C2 as claimed: accepted iff u < min(1, exp(H0 - H1)); so accepted for every
\* u whenever H1 <= H0, and rejected whenever H1 > H0 and u >= exp(H0 - H1).
HmcAcceptanceAsClaimed ==
    hmc.done =>
        /\ hmc.out.res.accepted <=> MetropolisRule(HmcU, HmcH0, HmcH1)
        /\ FGe(HmcH0, HmcH1) => hmc.out.res.accepted
        /\ (FGt(HmcH1, HmcH0) /\ ~ULt(HmcU, MathExp(FSub(HmcH0, HmcH1))))
              => ~hmc.out.res.accepted

\* C2, amended: accepted iff the one uniform draw u taken after the proposal
\* satisfies u < min(1, exp(H0 - H1)); so accepted for every u whenever
\* H1 <= H0 and H0 - H1 is a number (the two are not the same infinity), and
\* rejected whenever H1 > H0 and u >= exp(H0 - H1).
HmcAcceptance ==
    hmc.done =>
        /\ hmc.out.res.accepted <=> MetropolisRule(HmcU, HmcH0, HmcH1)
        /\ hmc.out.src = AfterDraws(hmc.src, 5)
        /\ (FGe(HmcH0, HmcH1) /\ ~IsNaN(FSub(HmcH0, HmcH1))) => hmc.out.res.accepted
        /\ (FGt(HmcH1, HmcH0) /\ ~ULt(HmcU, MathExp(FSub(HmcH0, HmcH1))))
              => ~hmc.out.res.accepted

\* a proposal that raises the energy, accepted because u is below exp(H0 - H1) < 1
HmcAcceptanceWitness ==
    /\ hmc.done /\ hmc.out.res.accepted
    /\ IsFinite(HmcH0) /\ FGt(HmcH1, HmcH0)
    /\ HmcU /= UZero
    /\ hmc.L > 0

\* C8: with H0 finite, a proposal whose H1 is +Infinity or NaN is rejected,
\* whatever u is: the step returns the start position, with momentum (0, 0).
HmcRejectsNonFinite ==
    (hmc.done /\ IsFinite(HmcH0) /\ (HmcH1 = PInf \/ IsNaN(HmcH1))) =>
        /\ ~hmc.out.res.accepted
        /\ hmc.out.res.q = hmc.q
        /\ hmc.out.res.p = Vec(0, 0)

\* a proposal of energy NaN, met by the draw u = 0 that accepts whenever anything is
HmcRejectsNonFiniteWitness ==
    /\ hmc.done /\ IsFinite(HmcH0) /\ IsNaN(HmcH1)
    /\ HmcU = UZero
    /\ FiniteVec(hmc.q)

-----------------------------------------------------------------------------
(* SpecSlice: one call of sampleSlice, an action for each pass of each of   *)
(* its loops                                                                *)

SliceScriptLen == 2

\* the densities sampleSlice runs on, along x with y = 0: flat never drops
\* below the slice level, spike is below it everywhere but at 0, logx is NaN
\* left of 0
SliceOracles == {"gauss", "flat", "cliff", "logx", "spike"}

SliceStarts == {-4, 0, 2}

SliceSources ==
    {Scripted(seq) : seq \in [1..SliceScriptLen -> UVals]} \cup {Seeded(s) : s \in Seeds}

notSlice == <<gen, outs, rngHist, lf, hmc, gb, sm, st, ctl>>

\* sampleSlice(logDensityFn, x0, 1.0, rng) is called
SlInit ==
    /\ \E orc \in SliceOracles, x0 \in SliceStarts, src \in SliceSources :
          sl = [fn |-> [orc |-> orc, axis |-> "x", held |-> 0], x0 |-> x0,
                w |-> SliceWidth, pc |-> "level", logY |-> 0, src0 |-> src,
                out |-> [bound |-> 0, steps |-> 0, exited |-> FALSE],
                leftSteps |-> 0, rightSteps |-> 0,
                s |-> [L |-> 0, R |-> 0, src |-> src, shrinkSteps |-> 0,
                       returned |-> FALSE, x |-> x0],
                ret |-> [x |-> x0, fallback |-> FALSE]]
    /\ gen = Unused
    /\ outs = Unused
    /\ rngHist = Unused
    /\ lf = Unused
    /\ hmc = Unused
    /\ gb = Unused
    /\ sm = Unused
    /\ st = Unused
    /\ ctl = Unused

\* sl after logY, u, L and R are set, d1 and d2 the two draws; sl.out holds
\* the variables of the stepping-out loop that runs
SlLevelSet(d1, d2) ==
    [sl EXCEPT !.logY = SliceLogY(sl.fn, sl.x0, d1[1]),
               !.s.L = InitialLeft(sl.x0, UTimes(d2[1], sl.w)),
               !.s.R = InitialRight(sl.x0, sl.w, UTimes(d2[1], sl.w)),
               !.s.src = d2[2],
               !.out = [bound |-> InitialLeft(sl.x0, UTimes(d2[1], sl.w)),
                        steps |-> 0, exited |-> FALSE],
               !.pc = "left"]

\* sl after the draw d1 of the slice level
SlLevelDrawn(d1) == SlLevelSet(d1, Draw(d1[2]))

\* the slice level and the interval of width w around x0
SlLevel ==
    /\ sl.pc = "level"
    /\ sl' = SlLevelDrawn(Draw(sl.s.src))
    /\ UNCHANGED notSlice

\* sl after a test of the first loop that left the loop's variables out:
\* steps = 0 and the second loop once the test has failed
SlLeftDone(out) ==
    IF out.exited
    THEN [sl EXCEPT !.s.L = out.bound, !.leftSteps = out.steps, !.pc = "right",
                    !.out = [bound |-> sl.s.R, steps |-> 0, exited |-> FALSE]]
    ELSE [sl EXCEPT !.s.L = out.bound, !.out = out]

\* the test of the first loop and, where it holds, a pass of the loop
SlLeft ==
    /\ sl.pc = "left"
    /\ sl' = SlLeftDone(LeftPass(sl.fn, sl.w, sl.logY, sl.out))
    /\ UNCHANGED notSlice

\* sl after a test of the second loop that left the loop's variables out
SlRightDone(out) ==
    IF out.exited
    THEN [sl EXCEPT !.s.R = out.bound, !.rightSteps = out.steps, !.pc = "shrink",
                    !.out = out]
    ELSE [sl EXCEPT !.s.R = out.bound, !.out = out]

\* the test of the second loop and, where it holds, a pass of the loop
SlRight ==
    /\ sl.pc = "right"
    /\ sl' = SlRightDone(RightPass(sl.fn, sl.w, sl.logY, sl.out))
    /\ UNCHANGED notSlice

\* sl after a pass of the shrinkage loop that left the loop's variables s
SlShrunk(s) ==
    [sl EXCEPT !.s = s, !.ret = ShrinkageReturn(sl.x0, s),
               !.pc = IF s.returned THEN "done" ELSE "shrink"]

\* a pass of the shrinkage loop, which returns x1 or narrows the interval
SlShrink ==
    /\ sl.pc = "shrink"
    /\ sl.s.shrinkSteps < MAX_SHRINK_STEPS
    /\ sl' = SlShrunk(ShrinkPass(sl.fn, sl.x0, sl.logY, sl.s))
    /\ UNCHANGED notSlice

\* the shrinkage loop is left after MAX_SHRINK_STEPS passes: warn, return x0
SlFallback ==
    /\ sl.pc = "shrink"
    /\ ~(sl.s.shrinkSteps < MAX_SHRINK_STEPS)
    /\ sl' = [sl EXCEPT !.ret = ShrinkageReturn(sl.x0, sl.s), !.pc = "done"]
    /\ UNCHANGED notSlice

SlNext == SlLevel \/ SlLeft \/ SlRight \/ SlShrink \/ SlFallback

SpecSlice == SlInit /\ [][SlNext]_vars

\* the number of shrinkage draws of the call so far: one for each pass of the
\* loop, the pass that returned included
SlShrinkDraws == sl.s.shrinkSteps + (IF sl.s.returned THEN 1 ELSE 0)

\* the expansions and draws of the call so far are within the caps, and a
\* call that exhausted the shrinkage returned x0
\* the call that has returned did what r, the value of SampleSlice, records
SlAgreesWith(r) ==
    /\ sl.ret.x = r.x /\ sl.ret.fallback = r.fallback /\ sl.s.src = r.src
    /\ sl.leftSteps = r.leftSteps /\ sl.rightSteps = r.rightSteps
    /\ sl.s.shrinkSteps = r.shrinkSteps

SliceWithinCaps ==
    /\ sl.out.steps <= MAX_STEPS /\ sl.leftSteps <= MAX_STEPS /\ sl.rightSteps <= MAX_STEPS
    /\ sl.pc = "done" => SlAgreesWith(SampleSlice(sl.fn, sl.x0, sl.w, sl.src0))
    /\ SlShrinkDraws <= MAX_SHRINK_STEPS
    /\ (sl.pc = "done" /\ ~sl.s.returned) =>
          (sl.s.shrinkSteps = MAX_SHRINK_STEPS /\ sl.ret.fallback /\ sl.ret.x = sl.x0)
    /\ (sl.pc = "done" /\ sl.s.returned) => (~sl.ret.fallback /\ sl.ret.x = sl.s.x)

\* a bound on the steps a call has left: the passes left to each loop it is in
\* or has yet to enter, and the one step that leaves each
SlRemaining ==
    CASE sl.pc = "level" -> 1 + 2 * (MAX_STEPS + 1) + (MAX_SHRINK_STEPS + 1)
      [] sl.pc = "left" ->
            (MAX_STEPS - sl.out.steps + 1) + (MAX_STEPS + 1) + (MAX_SHRINK_STEPS + 1)
      [] sl.pc = "right" -> (MAX_STEPS - sl.out.steps + 1) + (MAX_SHRINK_STEPS + 1)
      [] sl.pc = "shrink" -> MAX_SHRINK_STEPS - sl.s.shrinkSteps + 1
      [] sl.pc = "done" -> 0

\* C6: sampleSlice always terminates, whatever the log-density: every step of
\* a call lessens the bound on the steps it has left, which is never negative
\* and is 0 only on return; the call makes at most MAX_STEPS expansions of
\* the left bound, at most MAX_STEPS of the right bound and at most
\* MAX_SHRINK_STEPS shrinkage draws, and returns x0 when the shrinkage draws
\* are exhausted.
SliceTerminates ==
    /\ [](SliceWithinCaps /\ SlRemaining >= 0 /\ (SlRemaining = 0 <=> sl.pc = "done"))
    /\ [][SlRemaining' < SlRemaining]_vars

\* a call on a density that is NaN around x0, ended by the fallback
SliceTerminatesWitness ==
    /\ sl.pc = "done" /\ sl.ret.fallback
    /\ sl.s.shrinkSteps = MAX_SHRINK_STEPS
    /\ sl.fn.orc = "logx"

-----------------------------------------------------------------------------
(* SpecSlice: the interval and the slice                                    *)

\* L and R are set: the call is past const u = random() * w
SlPlaced == sl.pc /= "level"

\* L <= x0 <= R
SlBrackets == FGe(sl.x0, sl.s.L) /\ FGe(sl.s.R, sl.x0)

\* x lies in [L1, R1], the interval r records after the two stepping-out loops
SlInSteppedOut(r, x) == FGe(x, r.L1) /\ FGe(r.R1, x)

\* logDensityFn(x) >= logY
SlInSlice(x) == FGe(LogDensityFn(sl.fn, x), sl.logY)

\* the value returned lies in the stepped-out interval and in the slice
SlReturnedInside ==
    /\ SlInSteppedOut(SampleSlice(sl.fn, sl.x0, sl.w, sl.src0), sl.ret.x)
    /\ SlInSlice(sl.ret.x)

\* C30: throughout a call of sampleSlice the interval brackets the starting
\* point, L <= x0 <= R once L and R are set, after every expansion of the
\* stepping out and after every shrinkage, and the value returned, the
\* fallback return of x0 included, lies in the stepped-out interval and in the
\* slice: logDensityFn(x) >= logY.
SliceInvariants ==
    /\ SlPlaced => SlBrackets
    /\ sl.pc = "done" => SlReturnedInside

\* logDensityFn(x0) is NaN, and with it logY
SlLevelNaN == IsNaN(LogDensityFn(sl.fn, sl.x0))

\* the interval brackets x0 throughout and the value returned lies in the
\* stepped-out interval, whatever the log-density; when logDensityFn(x0) is a
\* number or an infinity x0 lies in the slice, e being 0 or more, and so does
\* the value returned; when it is NaN no comparison with logY holds, and the
\* call returns x0 by the fallback
SliceInvariantsOfNumbers ==
    /\ SlPlaced => SlBrackets
    /\ (SlPlaced /\ ~SlLevelNaN) => SlInSlice(sl.x0)
    /\ sl.pc = "done" =>
          /\ SlInSteppedOut(SampleSlice(sl.fn, sl.x0, sl.w, sl.src0), sl.ret.x)
          /\ ~SlLevelNaN => SlInSlice(sl.ret.x)
          /\ SlLevelNaN => (sl.ret.fallback /\ sl.ret.x = sl.x0 /\ ~SlInSlice(sl.ret.x))

\* a call on a density that is a number at x0: a bound stepped out, a draw
\* outside the slice shrank the interval, and a later draw was returned
SliceInvariantsWitness ==
    /\ sl.pc = "done" /\ ~SlLevelNaN
    /\ sl.s.returned /\ sl.ret.x = sl.s.x
    /\ sl.leftSteps + sl.rightSteps >= 1
    /\ sl.s.shrinkSteps >= 1

-----------------------------------------------------------------------------
(* SpecGibbs: GibbsSampler.step called on a position, and again on the      *)
(* position it returned                                                     *)

MaxGibbsSteps == 2
GibbsScriptLen == 2

\* ridge ties x to y; cliff has a half-plane of density 0
GibbsOracles == {"gauss", "ridge", "cliff"}

GibbsStarts == {Vec(0, 0), Vec(2, -2)}

GibbsSources ==
    {Scripted(seq) : seq \in [1..GibbsScriptLen -> UVals]} \cup {Seeded(s) : s \in Seeds}

notGibbs == <<gen, outs, rngHist, lf, hmc, sl, sm, st, ctl>>

GibbsInit ==
    /\ \E q \in GibbsStarts, orc \in GibbsOracles :
          gb = [q |-> q, orc |-> orc, steps |-> 0, done |-> FALSE, src |-> Unused,
                out |-> Unused]
    /\ gen = Unused
    /\ outs = Unused
    /\ rngHist = Unused
    /\ lf = Unused
    /\ hmc = Unused
    /\ sl = Unused
    /\ sm = Unused
    /\ st = Unused
    /\ ctl = Unused

\* step(currentState, logPInstance)
GibbsCall ==
    /\ ~gb.done /\ gb.steps < MaxGibbsSteps
    /\ \E src \in GibbsSources :
          gb' = [gb EXCEPT !.done = TRUE, !.steps = @ + 1, !.src = src,
                           !.out = GibbsStep(gb.q, gb.orc, src)]
    /\ UNCHANGED notGibbs

\* the caller makes the returned q its current position
GibbsContinue ==
    /\ gb.done
    /\ gb' = [gb EXCEPT !.done = FALSE, !.q = gb.out.res.q, !.src = Unused,
                       !.out = Unused]
    /\ UNCHANGED notGibbs

GibbsNext == GibbsCall \/ GibbsContinue

SpecGibbs == GibbsInit /\ [][GibbsNext]_vars

\* the slice sample of x from x -> logP(x, y0), started at x0 on the source
\* the last call was given
GibbsSliceX ==
    SampleSlice([orc |-> gb.orc, axis |-> "x", held |-> gb.q.y], gb.q.x, SliceWidth, gb.src)

\* the slice sample of y from y -> logP(x1, y), started at y0 on the source
\* as the sample of x left it
GibbsSliceY ==
    SampleSlice([orc |-> gb.orc, axis |-> "y", held |-> gb.out.res.q.x], gb.q.y,
                SliceWidth, gb.out.sx.src)

-----------------------------------------------------------------------------
(* SpecSamplers: samplers a and b constructed alike and stepped in any order,
   among the steps of a third sampler, the draws of another SeededRandom and
   other calls of Math.random *)

MaxSmSteps == 2
MaxOthers == 2

SmKinds == {"hmc", "gibbs"}

SmSeeds == {<<0, 42>>, <<1, 57920>>}

\* the seeds of the third sampler: none, the seed of a and b
SmOtherSeeds(seed) == {NullWord, seed}

SmLs == {2}

SmOracles == {"gauss", "cliff"}

SmStarts == {Vec(2, 0)}

\* what Math.random returns, call after call
SmScripts == {<<UZero, <<1000, 0>>, <<8, 0>>>>}

\* new HMCSampler(params, seed) or new GibbsSampler(params, seed)
NewSampler(kind, params, seed) ==
    IF kind = "hmc" THEN NewHMCSampler(params, seed) ELSE NewGibbsSampler(params, seed)

notSamplers == <<gen, outs, rngHist, lf, hmc, sl, gb, st, ctl>>

SmInit ==
    /\ \E kind \in SmKinds, seed \in SmSeeds, L \in SmLs, orc \in SmOracles,
          q \in SmStarts, script \in SmScripts :
          \E seedC \in SmOtherSeeds(seed) :
             sm = [a |-> NewSampler(kind, [epsilon |-> DefaultEpsilon, L |-> L], seed),
                   b |-> NewSampler(kind, [epsilon |-> DefaultEpsilon, L |-> L], seed),
                   c |-> NewSampler(kind, [epsilon |-> DefaultEpsilon, L |-> L], seedC),
                   g |-> NewSeededRandom(seed),
                   math |-> [seq |-> script, pos |-> 1],
                   orc |-> orc, q0 |-> q, qa |-> q, qb |-> q, qc |-> q,
                   ra |-> <<>>, rb |-> <<>>, others |-> 0, between |-> FALSE]
    /\ gen = Unused
    /\ outs = Unused
    /\ rngHist = Unused
    /\ lf = Unused
    /\ hmc = Unused
    /\ sl = Unused
    /\ gb = Unused
    /\ st = Unused
    /\ ctl = Unused

\* sm after a.step(...) returned r; the caller steps from the returned q next
SmSteppedA(r) ==
    [sm EXCEPT !.a = r.sampler, !.math = r.math, !.ra = Append(@, r.res),
               !.qa = r.res.q]

\* a.step({ q: qa }, logP)
SmStepA ==
    /\ Len(sm.ra) < MaxSmSteps
    /\ sm' = SmSteppedA(SamplerStep(sm.a, [q |-> sm.qa], sm.orc, sm.math))
    /\ UNCHANGED notSamplers

\* sm after b.step(...) returned r
SmSteppedB(r) ==
    [sm EXCEPT !.b = r.sampler, !.math = r.math, !.rb = Append(@, r.res),
               !.qb = r.res.q]

\* b.step({ q: qb }, logP)
SmStepB ==
    /\ Len(sm.rb) < MaxSmSteps
    /\ sm' = SmSteppedB(SamplerStep(sm.b, [q |-> sm.qb], sm.orc, sm.math))
    /\ UNCHANGED notSamplers

\* a and b have begun and not both finished
SmUnderWay ==
    /\ Len(sm.ra) + Len(sm.rb) > 0
    /\ Len(sm.ra) + Len(sm.rb) < MaxSmSteps + MaxSmSteps

\* sm after the third sampler's step returned r
SmSteppedC(r) ==
    [sm EXCEPT !.c = r.sampler, !.math = r.math, !.qc = r.res.q,
               !.others = @ + 1, !.between = @ \/ SmUnderWay]

\* c.step({ q: qc }, logP), c a sampler of the same kind, seeded or not
SmStepC ==
    /\ sm.others < MaxOthers
    /\ sm' = SmSteppedC(SamplerStep(sm.c, [q |-> sm.qc], sm.orc, sm.math))
    /\ UNCHANGED notSamplers

\* random() on another SeededRandom built from the seed of a and b
SmOtherRandom ==
    /\ sm.others < MaxOthers
    /\ sm' = [sm EXCEPT !.g = Random(sm.g)[2], !.others = @ + 1,
                        !.between = @ \/ SmUnderWay]
    /\ UNCHANGED notSamplers

\* Math.random() called elsewhere
SmMathRandom ==
    /\ sm.others < MaxOthers
    /\ sm' = [sm EXCEPT !.math = MathRandom(sm.math)[2], !.others = @ + 1,
                        !.between = @ \/ SmUnderWay]
    /\ UNCHANGED notSamplers

\* c.setSeed(seed): the third sampler reseeded with the seed of a and b
SmReseedC ==
    /\ sm.others < MaxOthers
    /\ sm' = [sm EXCEPT !.c = SamplerSetSeed(sm.c, sm.a.seed), !.others = @ + 1,
                        !.between = @ \/ SmUnderWay]
    /\ UNCHANGED notSamplers

SmNext ==
    \/ SmStepA
    \/ SmStepB
    \/ SmStepC
    \/ SmOtherRandom
    \/ SmMathRandom
    \/ SmReseedC

SpecSamplers == SmInit /\ [][SmNext]_vars

\* C3: two samplers of the same variant constructed with the same non-null
\* seed and the same parameters, stepped from the same start on the same
\* density, return the same result (q, p, accepted, trajectory) at every step
\* both have made, whatever a third sampler, another generator and
\* Math.random have done in between.
SeededDeterministic ==
    \A k \in 1..MaxSmSteps :
        (k <= Len(sm.ra) /\ k <= Len(sm.rb)) =>
            /\ sm.ra[k] = sm.rb[k]
            /\ DOMAIN sm.ra[k] = {"q", "p", "accepted", "trajectory"}

\* a and b have made all their steps, with other draws in between, and the
\* steps did move
SeededDeterministicWitness ==
    /\ Len(sm.ra) = MaxSmSteps /\ Len(sm.rb) = MaxSmSteps
    /\ sm.between /\ sm.others = MaxOthers
    /\ sm.c.rng = NullRng /\ sm.math.pos /= 1
    /\ sm.ra[1] /= sm.ra[MaxSmSteps]
    /\ sm.qa /= sm.q0


-----------------------------------------------------------------------------
(* SpecStats: the chains of samples as they are gathered, and the diagnostics
   called on them *)

MaxChains == 3
MaxChainLen == 3

\* the runs the samples come from
StStreams == {1, 2, 3}

\* the i-th sample of run k: run 1 has a constant y, run 2 a constant x, run 3
\* another constant y
StreamSample(k, i) ==
    CASE k = 1 -> [x |-> i % 2, y |-> 0]
      [] k = 2 -> [x |-> 1, y |-> i]
      [] k = 3 -> [x |-> i, y |-> 3]

\* what is given in place of an array of chains
StNotArrays == {JsValue("null"), JsValue("undefined"), JsValue("zero"), JsValue("object")}

notStats == <<gen, outs, rngHist, lf, hmc, sl, gb, sm, ctl>>

StInit ==
    /\ \E chains \in StNotArrays \cup {JsArray(<<>>)} :
          st = [chains |-> chains, streams |-> <<>>, called |-> "none", ret |-> Null]
    /\ gen = Unused
    /\ outs = Unused
    /\ rngHist = Unused
    /\ lf = Unused
    /\ hmc = Unused
    /\ sl = Unused
    /\ gb = Unused
    /\ sm = Unused
    /\ ctl = Unused

\* a chain is begun: chains.push([]), its samples to come from run k
StAddChain ==
    /\ st.called = "none" /\ IsArray(st.chains) /\ Len(st.chains.items) < MaxChains
    /\ \E k \in StStreams :
          st' = [st EXCEPT !.chains.items = Append(@, JsArray(<<>>)),
                           !.streams = Append(@, k)]
    /\ UNCHANGED notStats

\* a chain is missing: chains.push(null)
StAddMissing ==
    /\ st.called = "none" /\ IsArray(st.chains) /\ Len(st.chains.items) < MaxChains
    /\ st' = [st EXCEPT !.chains.items = Append(@, JsValue("null")),
                       !.streams = Append(@, 0)]
    /\ UNCHANGED notStats

\* chains[j].push(sample), the next sample of the chain's run
StAddSample ==
    /\ st.called = "none" /\ IsArray(st.chains)
    /\ \E j \in 1..Len(st.chains.items) :
          /\ IsArray(st.chains.items[j])
          /\ Len(st.chains.items[j].items) < MaxChainLen
          /\ st' = [st EXCEPT !.chains.items[j].items =
                        Append(@, StreamSample(st.streams[j], Len(@) + 1))]
    /\ UNCHANGED notStats

\* calculateGelmanRubin(chains)
StGelmanRubin ==
    /\ st.called = "none"
    /\ st' = [st EXCEPT !.called = "GelmanRubin", !.ret = CalculateGelmanRubin(st.chains)]
    /\ UNCHANGED notStats

\* calculateESS(chains)
StESS ==
    /\ st.called = "none"
    /\ st' = [st EXCEPT !.called = "ESS", !.ret = CalculateESS(st.chains)]
    /\ UNCHANGED notStats

\* the caller goes on gathering samples
StResume ==
    /\ st.called /= "none"
    /\ st' = [st EXCEPT !.called = "none", !.ret = Null]
    /\ UNCHANGED notStats

StNext ==
    \/ StAddChain
    \/ StAddMissing
    \/ StAddSample
    \/ StGelmanRubin
    \/ StESS
    \/ StResume

SpecStats == StInit /\ [][StNext]_vars

\* chains contains a chain that is missing or has fewer than 2 samples
StChainUnfit ==
    \E j \in 1..Len(st.chains.items) :
        st.chains.items[j].kind /= "array" \/ Len(st.chains.items[j].items) < 2

\* what was returned is an object of two numbers x and y
StObjectOfNumbers(x, y) ==
    /\ st.ret.kind = "object" /\ DOMAIN st.ret = {"kind", "x", "y"}
    /\ x /= QNaN /\ y /= QNaN

\* C9: calculateGelmanRubin returns null exactly when its input is not an
\* array, has fewer than 2 chains, or has a chain that is missing or has
\* fewer than 2 samples; calculateESS returns null exactly when its input is
\* not an array, has no chains, or has a chain that is missing or has fewer
\* than 2 samples; otherwise each returns an object with a number x and a
\* number y, neither of them NaN.
DiagnosticsNullOnUnmet ==
    /\ st.called = "GelmanRubin" =>
          IF st.chains.kind /= "array" \/ Len(st.chains.items) < 2 \/ StChainUnfit
          THEN st.ret = Null
          ELSE StObjectOfNumbers(st.ret.x.square, st.ret.y.square)
    /\ st.called = "ESS" =>
          IF st.chains.kind /= "array" \/ Len(st.chains.items) = 0 \/ StChainUnfit
          THEN st.ret = Null
          ELSE StObjectOfNumbers(st.ret.x, st.ret.y)

\* calculateESS has returned an object for one chain, for which
\* calculateGelmanRubin returns null
DiagnosticsNullOnUnmetWitness ==
    /\ st.called = "ESS" /\ st.ret.kind = "object"
    /\ Len(st.chains.items) = 1
    /\ CalculateGelmanRubin(st.chains) = Null

\* the chains given are m >= 2 chains of at least 2 samples each
StChainsFit ==
    /\ st.chains.kind = "array" /\ Len(st.chains.items) >= 2 /\ ~StChainUnfit

\* the sum of f over the chains 1..m
RECURSIVE StSumOver(_, _)
StSumOver(f, m) == IF m = 0 THEN 0 ELSE StSumOver(f, m - 1) + f[m]

\* the first n values of dimension dim of chain j
StValues(j, n, dim) == [i \in 1..n |-> st.chains.items[j].items[i][dim]]

\* S_j, the sum of the first n values of chain j
StS(j, n, dim) == StSumOver(StValues(j, n, dim), n)

\* Q_j, the sum of the squares of the first n values of chain j
StQ(j, n, dim) == StSumOver([i \in 1..n |-> StValues(j, n, dim)[i] * StValues(j, n, dim)[i]], n)

\* m n (n - 1) W: the sum over the chains of n Q_j - S_j^2
StW(n, m, dim) ==
    StSumOver([j \in 1..m |-> n * StQ(j, n, dim) - StS(j, n, dim) * StS(j, n, dim)], m)

\* (m - 1) m^2 n B: the sum over the chains of (m S_j - T)^2, T the sum of the S_j
StB(n, m, dim) ==
    StSumOver([j \in 1..m |->
                  (m * StS(j, n, dim) - StSumOver([l \in 1..m |-> StS(l, n, dim)], m)) *
                  (m * StS(j, n, dim) - StSumOver([l \in 1..m |-> StS(l, n, dim)], m))], m)

\* the first n values of dimension dim are the same in all chains
StIdentical(n, m, dim) == \A j \in 1..m : StValues(j, n, dim) = StValues(1, n, dim)

\* the result r of a dimension is what W, B and Vhat of its first n values
\* make it: Vhat / W = (n - 1) ((m - 1) m w + b) / (n (m - 1) m w), with
\* w = m n (n - 1) W and b = (m - 1) m^2 n B
StRhatAsDefined(r, n, m, dim) ==
    /\ StW(n, m, dim) > 0 =>
          r.square = Ratio((n - 1) * ((m - 1) * m * StW(n, m, dim) + StB(n, m, dim)),
                           n * (m - 1) * m * StW(n, m, dim))
    /\ (StW(n, m, dim) > 0 /\ StIdentical(n, m, dim)) => r.square = Ratio(n - 1, n)
    /\ (StW(n, m, dim) = 0 /\ StB(n, m, dim) = 0) => r = RhatOne
    /\ (StW(n, m, dim) = 0 /\ StB(n, m, dim) /= 0) => r = RhatInfinity

\* C10: for m >= 2 chains of at least 2 samples each, calculateGelmanRubin
\* computes each dimension from the first n = minimum chain length samples of
\* that dimension alone: with W the mean of the chains' sample variances
\* (denominator n - 1), B = n / (m - 1) times the sum of the squared
\* deviations of the chain means from their mean and Vhat = ((n - 1) / n) W +
\* B / n, the square of the result is Vhat / W when W > 0, which is
\* (n - 1) / n for identical chains, and when W = 0 the result is 1 if B = 0
\* and Infinity otherwise.
GelmanRubinAsDefined ==
    (st.called = "GelmanRubin" /\ StChainsFit) =>
        /\ StRhatAsDefined(st.ret.x, MinLength(st.chains.items), Len(st.chains.items), "x")
        /\ StRhatAsDefined(st.ret.y, MinLength(st.chains.items), Len(st.chains.items), "y")

\* three chains of different lengths, the shortest of 2 samples, with W > 0
\* and B > 0 in x and W = 0 and B > 0 in y
GelmanRubinAsDefinedWitness ==
    /\ st.called = "GelmanRubin" /\ StChainsFit
    /\ Len(st.chains.items) = 3
    /\ MinLength(st.chains.items) = 2
    /\ \E j \in 1..3 : Len(st.chains.items[j].items) = 3
    /\ StW(2, 3, "x") > 0 /\ StB(2, 3, "x") > 0
    /\ st.ret.x.square /= Ratio(1, 2)
    /\ st.ret.y = RhatInfinity


-----------------------------------------------------------------------------
(* SpecEss: calculateESS on one or two chains long enough for the truncation
   loop to run *)

MaxEssChains == 2
MaxEssLen == 6

EsStreams == {1, 2, 3, 4}

\* the i-th value of run k: slow steps, alternation, a constant, quicker steps
EsStreamValue(k, i) ==
    CASE k = 1 -> (i - 1) \div 3
      [] k = 2 -> i % 2
      [] k = 3 -> 1
      [] k = 4 -> (i - 1) \div 2

\* the first len samples of run k; y follows the next run
EsChain(k, len) ==
    JsArray([i \in 1..len |-> [x |-> EsStreamValue(k, i),
                               y |-> EsStreamValue((k % 4) + 1, i)]])

EsChains == {EsChain(k, len) : k \in EsStreams, len \in 2..MaxEssLen}

EsInit ==
    /\ \E m \in 1..MaxEssChains : \E items \in [1..m -> EsChains] :
          st = [chains |-> JsArray(items), streams |-> <<>>, called |-> "none", ret |-> Null]
    /\ gen = Unused
    /\ outs = Unused
    /\ rngHist = Unused
    /\ lf = Unused
    /\ hmc = Unused
    /\ sl = Unused
    /\ gb = Unused
    /\ sm = Unused
    /\ ctl = Unused

\* calculateESS(chains)
EsCall ==
    /\ st.called = "none"
    /\ st' = [st EXCEPT !.called = "ESS", !.ret = CalculateESS(st.chains)]
    /\ UNCHANGED notStats

\* the last sample of every chain is dropped and the diagnostic asked for again
EsShorten ==
    /\ st.called = "ESS"
    /\ \A j \in 1..Len(st.chains.items) : Len(st.chains.items[j].items) > 2
    /\ st' = [st EXCEPT !.called = "none", !.ret = Null,
                       !.chains.items = [j \in 1..Len(@) |->
                           JsArray(SubSeq(@[j].items, 1, Len(@[j].items) - 1))]]
    /\ UNCHANGED notStats

EsNext == EsCall \/ EsShorten

SpecEss == EsInit /\ [][EsNext]_vars

\* n, m and N = m n of the chains given
EsN == MinLength(st.chains.items)
EsM == Len(st.chains.items)
EsTotal == EsM * EsN

\* values2D, perChainStats, n, m and gamma0Pooled of a dimension
EsCtxFrom(v, s) ==
    [values2D |-> v, perChainStats |-> s, n |-> EsN, m |-> EsM,
     gamma0Pooled |-> QDiv(QSum([j \in 1..EsM |-> s[j].gamma0]), QInt(EsM))]

EsCtxOf(v) == EsCtxFrom(v, [j \in 1..EsM |-> EssChainStats(v[j], EsN)])

EsCtx(dim) == EsCtxOf([j \in 1..EsM |-> DimValues(st.chains.items[j].items, EsN, dim)])

\* the sum of the Gamma_t = rho(2t-1) + rho(2t) from t on, up to the first
\* that is not positive, over the pairs with 2t <= floor(n / 2)
RECURSIVE EsGammaSum(_, _)

EsGammaFrom(c, t, Gamma_t) ==
    IF QPositive(Gamma_t) THEN QAdd(Gamma_t, EsGammaSum(c, t + 1)) ELSE QInt(0)

EsGammaSum(c, t) ==
    IF 2 * t <= c.n \div 2
    THEN EsGammaFrom(c, t, QAdd(GetRhoK(c, 2 * t - 1), GetRhoK(c, 2 * t)))
    ELSE QInt(0)

\* min(N / tau, N) with tau = 1 + 2 * sum
EsMinOf(sum) ==
    QMin(QDiv(QInt(EsTotal), QAdd(QInt(1), QMul(QInt(2), sum))), QInt(EsTotal))

\* the value of a dimension as described
EsDescribed(c) ==
    IF QIsZero(c.gamma0Pooled) THEN QInt(EsTotal) ELSE EsMinOf(EsGammaSum(c, 1))

\* 0 < v <= N
EsInRange(v) == QPositive(v) /\ ~QLess(QInt(EsTotal), v) /\ v /= QNaN

\* C11: for valid input truncated to n samples per chain, calculateESS
\* returns min(N / tau, N) per dimension, tau = 1 + 2 * (sum of Gamma_t), the
\* Gamma_t = rho(2t-1) + rho(2t) accumulated for t = 1, 2, ... over every pair
\* with 2t <= floor(n / 2) up to the first that is not positive; N when the
\* pooled lag-0 autocovariance is 0; the result is > 0 and <= N.
EssAsDescribed ==
    (st.called = "ESS" /\ st.ret.kind = "object") =>
        /\ st.ret.x = EsDescribed(EsCtx("x"))
        /\ st.ret.y = EsDescribed(EsCtx("y"))
        /\ EsInRange(st.ret.x) /\ EsInRange(st.ret.y)

-----------------------------------------------------------------------------
(* useSamplingController: the hook's state and refs as one record h, and its
   callbacks as functions of it.  The fields carry the names of the state
   variables and refs; frames is the queue of executeStep closures given to
   requestAnimationFrame, each [n, stepsCompleted, useSecondChain] with what
   the counters were at its call; math is Math.random; stepCalls and
   stepCalls2 count the calls of step on the two samplers.  A position counts
   twentieths, as the step size does. *)

\* const [burnIn] = useState(10)
BurnIn == 10

\* an Error with its message's origin
JsError(of) == [kind |-> "error", of |-> of]

\* new Logp(str) returns for the expressions of the oracles and throws for others
LogpParses(str) == str \in Oracles \cup {"wall"}

\* the hook at its first render
NewHook(script) ==
    [logP |-> "", params |-> [epsilon |-> DefaultEpsilon, L |-> DefaultL],
     initialPosition |-> Vec(0, 0), samples |-> <<>>, trajectory |-> <<>>,
     currentParticle |-> Null, isRunning |-> FALSE, iterationCount |-> 0,
     error |-> Null, contourData |-> Null, rejectedCount |-> 0,
     seed |-> NullWord, useSeededMode |-> FALSE,
     useSecondChain |-> FALSE, initialPosition2 |-> Vec(20, 20),
     samples2 |-> <<>>, trajectory2 |-> <<>>, currentParticle2 |-> Null,
     rejectedCount2 |-> 0, seed2 |-> NullWord, rHat |-> Null,
     logpInstanceRef |-> Null, currentParticleRef |-> Null,
     currentParticleRef2 |-> Null,
     samplerRef |-> NewHMCSampler([epsilon |-> DefaultEpsilon, L |-> DefaultL], NullWord),
     samplerRef2 |-> NewHMCSampler([epsilon |-> DefaultEpsilon, L |-> DefaultL], NullWord),
     frames |-> <<>>, math |-> [seq |-> script, pos |-> 1],
     stepCalls |-> 0, stepCalls2 |-> 0]

\* { q: { ...position }, p: { x: 0, y: 0 } }
StartState(position) == [q |-> position, p |-> Vec(0, 0)]

\* the effect on [params.epsilon, params.L]
ParamsEffect(h) ==
    [h EXCEPT !.samplerRef = SamplerSetParams(@, h.params),
              !.samplerRef2 = SamplerSetParams(@, h.params)]

\* samples.slice(burnIn)
SliceFrom(samples, from) == SubSeq(samples, from + 1, Len(samples))

\* an R-hat effect that stores the slices it reads
RhatOfValidStoring(h, validSamples, validSamples2) ==
    IF Len(validSamples) > 1 /\ Len(validSamples2) > 1
    THEN [h EXCEPT !.samples = validSamples, !.samples2 = validSamples2,
                   !.rHat = CalculateGelmanRubin(
                                JsArray(<<JsArray(validSamples), JsArray(validSamples2)>>))]
    ELSE [h EXCEPT !.rHat = Null]

\* the R-hat effect once its first test has passed
RhatOfValid(h, validSamples, validSamples2) ==
    IF Len(validSamples) > 1 /\ Len(validSamples2) > 1
    THEN [h EXCEPT !.rHat = CalculateGelmanRubin(
                                JsArray(<<JsArray(validSamples), JsArray(validSamples2)>>))]
    ELSE [h EXCEPT !.rHat = Null]

\* the effect on [isRunning, useSecondChain, samples, samples2, burnIn]
RhatEffect(h) ==
    IF ~h.isRunning /\ h.useSecondChain /\ Len(h.samples) > BurnIn
       /\ Len(h.samples2) > BurnIn
    THEN RhatOfValid(h, SliceFrom(h.samples, BurnIn), SliceFrom(h.samples2, BurnIn))
    ELSE h

\* the render that follows a callback, with its effects
Render(h) == RhatEffect(ParamsEffect(h))

\* the second half of reset(): if (useSecondChain) { ... }
ResetSecond(h) ==
    IF h.useSecondChain
    THEN [h EXCEPT !.samples2 = <<>>, !.trajectory2 = <<>>, !.rejectedCount2 = 0,
                   !.currentParticle2 = StartState(h.initialPosition2),
                   !.currentParticleRef2 = StartState(h.initialPosition2),
                   !.samplerRef2 = IF h.useSeededMode /\ h.seed2 /= NullWord
                                   THEN SamplerSetSeed(@, h.seed2) ELSE @]
    ELSE h

\* a reset that leaves the trajectory of chain 1 on display
ResetKeepsTrajectory(h) ==
    ResetSecond([h EXCEPT !.samples = <<>>, !.iterationCount = 0,
                          !.rejectedCount = 0,
                          !.currentParticle = StartState(h.initialPosition),
                          !.currentParticleRef = StartState(h.initialPosition),
                          !.isRunning = FALSE,
                          !.samplerRef = IF h.useSeededMode /\ h.seed /= NullWord
                                         THEN SamplerSetSeed(@, h.seed) ELSE @,
                          !.rHat = Null])

\* reset()
Reset(h) ==
    ResetSecond([h EXCEPT !.samples = <<>>, !.trajectory = <<>>, !.iterationCount = 0,
                          !.rejectedCount = 0,
                          !.currentParticle = StartState(h.initialPosition),
                          !.currentParticleRef = StartState(h.initialPosition),
                          !.isRunning = FALSE,
                          !.samplerRef = IF h.useSeededMode /\ h.seed /= NullWord
                                         THEN SamplerSetSeed(@, h.seed) ELSE @,
                          !.rHat = Null])

\* setLogP(str)
SetLogP(h, str) ==
    IF str = ""
    THEN Reset([h EXCEPT !.logP = str, !.error = Null, !.logpInstanceRef = Null,
                         !.contourData = Null])
    ELSE IF LogpParses(str)
    THEN Reset([h EXCEPT !.logP = str, !.error = Null,
                         !.logpInstanceRef = [kind |-> "logp", orc |-> str],
                         !.contourData = [kind |-> "trace", orc |-> str]])
    ELSE [h EXCEPT !.logP = str, !.error = JsError("Logp"), !.logpInstanceRef = Null,
                   !.contourData = Null]

\* setParams(newParams)
SetParams(h, newParams) ==
    [h EXCEPT !.params = [epsilon |-> IF newParams.epsilon /= Undef
                                      THEN newParams.epsilon ELSE @.epsilon,
                          L |-> IF newParams.L /= Undef THEN newParams.L ELSE @.L]]

\* setSeed(newSeed)
HookSetSeed(h, newSeed) ==
    [h EXCEPT !.seed = newSeed, !.samplerRef = SamplerSetSeed(@, newSeed),
              !.useSeededMode = newSeed /= NullWord]

\* setSeed2(newSeed)
HookSetSeed2(h, newSeed) ==
    [h EXCEPT !.seed2 = newSeed, !.samplerRef2 = SamplerSetSeed(@, newSeed)]

\* the oracle is evaluated at every point of the trajectory: U at the first
\* and the last, gradU at each
StepThrows(orc, trajectory) ==
    \E i \in DOMAIN trajectory : EvaluateThrows(orc, trajectory[i].x, trajectory[i].y)

\* step(...) that throws, after the four draws of the momentum
StepThrown(s, of, after) ==
    [thrown |-> TRUE, error |-> JsError(of),
     sampler |-> [s EXCEPT !.rng = after.rng], math |-> after.math]

\* step(...) on a Logp, r what it returns where no evaluation throws
StepOutcome(s, orc, m, r) ==
    IF StepThrows(orc, r.res.trajectory)
    THEN StepThrown(s, "evaluate", AfterDraws([rng |-> s.rng, math |-> m], 4))
    ELSE [thrown |-> FALSE, res |-> r.res, sampler |-> r.sampler, math |-> r.math]

\* samplerRef.current.step(currentParticleRef.current, logpInstanceRef.current):
\* on null the first call of U throws a TypeError
ChainStep(s, particle, logp, m) ==
    IF logp = Null
    THEN StepThrown(s, "TypeError", AfterDraws([rng |-> s.rng, math |-> m], 4))
    ELSE StepOutcome(s, logp.orc, m, SamplerStep(s, particle, logp.orc, m))

\* a catch that records the error and lets the run count as running
CaughtStillRunning(h, e) == [h EXCEPT !.error = e]

\* catch (e) { setError(e.message); setIsRunning(false); }
Caught(h, e) == [h EXCEPT !.error = e, !.isRunning = FALSE]

\* the end of the try block: the counters, and the next frame or the end
StepDone(h, run) ==
    IF run.stepsCompleted + 1 < run.n
    THEN [h EXCEPT !.iterationCount = @ + 1,
                   !.frames = Append(@, [run EXCEPT !.stepsCompleted = @ + 1])]
    ELSE [h EXCEPT !.iterationCount = @ + 1, !.isRunning = FALSE]

\* chain 2 after its step
SecondStepped(h, run, o) ==
    IF o.thrown
    THEN Caught([h EXCEPT !.samplerRef2 = o.sampler, !.math = o.math,
                          !.stepCalls2 = @ + 1], o.error)
    ELSE StepDone([h EXCEPT !.samplerRef2 = o.sampler, !.math = o.math,
                            !.stepCalls2 = @ + 1,
                            !.currentParticleRef2 = [q |-> o.res.q, p |-> o.res.p],
                            !.samples2 = IF o.res.accepted THEN Append(@, o.res.q) ELSE @,
                            !.rejectedCount2 = IF o.res.accepted THEN @ ELSE @ + 1,
                            !.trajectory2 = o.res.trajectory,
                            !.currentParticle2 = [q |-> o.res.q, p |-> o.res.p]],
                  run)

\* if (useSecondChain) { ... } and what follows it
SecondChain(h, run) ==
    IF run.useSecondChain
    THEN SecondStepped(h, run, ChainStep(h.samplerRef2, h.currentParticleRef2,
                                         h.logpInstanceRef, h.math))
    ELSE StepDone(h, run)

\* chain 1 after a step whose q is stored whether accepted or not
FirstSteppedStoresRejected(h, run, o) ==
    IF o.thrown
    THEN Caught([h EXCEPT !.samplerRef = o.sampler, !.math = o.math,
                          !.stepCalls = @ + 1], o.error)
    ELSE SecondChain([h EXCEPT !.samplerRef = o.sampler, !.math = o.math,
                               !.stepCalls = @ + 1,
                               !.currentParticleRef = [q |-> o.res.q, p |-> o.res.p],
                               !.samples = Append(@, o.res.q),
                               !.rejectedCount = IF o.res.accepted THEN @ ELSE @ + 1,
                               !.trajectory = o.res.trajectory,
                               !.currentParticle = [q |-> o.res.q, p |-> o.res.p]],
                     run)

\* chain 1 after its step
FirstStepped(h, run, o) ==
    IF o.thrown
    THEN Caught([h EXCEPT !.samplerRef = o.sampler, !.math = o.math,
                          !.stepCalls = @ + 1], o.error)
    ELSE SecondChain([h EXCEPT !.samplerRef = o.sampler, !.math = o.math,
                               !.stepCalls = @ + 1,
                               !.currentParticleRef = [q |-> o.res.q, p |-> o.res.p],
                               !.samples = IF o.res.accepted THEN Append(@, o.res.q) ELSE @,
                               !.rejectedCount = IF o.res.accepted THEN @ ELSE @ + 1,
                               !.trajectory = o.res.trajectory,
                               !.currentParticle = [q |-> o.res.q, p |-> o.res.p]],
                     run)

\* chain 1 stepped after chain 2, whose step returned o, was committed
FirstAfterSecond(h, run, o) ==
    IF o.thrown
    THEN Caught([h EXCEPT !.samplerRef2 = o.sampler, !.math = o.math,
                          !.stepCalls2 = @ + 1], o.error)
    ELSE FirstStepped([h EXCEPT !.samplerRef2 = o.sampler, !.math = o.math,
                                !.stepCalls2 = @ + 1,
                                !.currentParticleRef2 = [q |-> o.res.q, p |-> o.res.p],
                                !.samples2 = IF o.res.accepted THEN Append(@, o.res.q) ELSE @,
                                !.rejectedCount2 = IF o.res.accepted THEN @ ELSE @ + 1,
                                !.trajectory2 = o.res.trajectory,
                                !.currentParticle2 = [q |-> o.res.q, p |-> o.res.p]],
                      [run EXCEPT !.useSecondChain = FALSE],
                      ChainStep(h.samplerRef, h.currentParticleRef, h.logpInstanceRef, o.math))

\* an iteration that steps chain 2 before chain 1
ExecuteStepSecondFirst(h, run) ==
    IF run.useSecondChain
    THEN FirstAfterSecond(h, run, ChainStep(h.samplerRef2, h.currentParticleRef2,
                                            h.logpInstanceRef, h.math))
    ELSE FirstStepped(h, run, ChainStep(h.samplerRef, h.currentParticleRef,
                                        h.logpInstanceRef, h.math))

\* executeStep() of the closure run
ExecuteStep(h, run) ==
    FirstStepped(h, run, ChainStep(h.samplerRef, h.currentParticleRef,
                                   h.logpInstanceRef, h.math))

\* sampleSteps: if (useSecondChain && !currentParticleRef2.current) { ... }
InitSecondParticle(h) ==
    IF h.useSecondChain /\ h.currentParticleRef2 = Null
    THEN [h EXCEPT !.currentParticleRef2 = StartState(h.initialPosition2),
                   !.currentParticle2 = StartState(h.initialPosition2)]
    ELSE h

\* sampleSteps: if (!currentParticleRef.current) { ... }
InitFirstParticle(h) ==
    IF h.currentParticleRef = Null
    THEN [h EXCEPT !.currentParticleRef = StartState(h.initialPosition),
                   !.currentParticle = StartState(h.initialPosition)]
    ELSE h

\* sampleSteps without its guard on the density
SampleStepsUnguarded(h, n) ==
    ExecuteStep(InitSecondParticle(InitFirstParticle([h EXCEPT !.isRunning = TRUE])),
                [n |-> n, stepsCompleted |-> 0,
                 useSecondChain |-> h.useSecondChain,
                 from |-> [iterationCount |-> h.iterationCount,
                           stepCalls |-> h.stepCalls,
                           stepCalls2 |-> h.stepCalls2]])

\* sampleSteps(n)
SampleSteps(h, n) ==
    IF h.logpInstanceRef = Null
    THEN [h EXCEPT !.isRunning = FALSE]
    ELSE ExecuteStep(InitSecondParticle(InitFirstParticle([h EXCEPT !.isRunning = TRUE])),
                     [n |-> n, stepsCompleted |-> 0,
                      useSecondChain |-> h.useSecondChain,
                      from |-> [iterationCount |-> h.iterationCount,
                                stepCalls |-> h.stepCalls,
                                stepCalls2 |-> h.stepCalls2]])

\* the frame callback at the head of the queue runs
Frame(h) == ExecuteStep([h EXCEPT !.frames = Tail(@)], Head(h.frames))

-----------------------------------------------------------------------------
(* SpecController: the calls a host makes on the hook and the animation
   frames between them.  As the controls of Controls.jsx are, reset and
   sampleSteps are out of reach while isRunning is true; the expression, the
   seeds, the parameters and the second chain can be set at any time. *)

MaxCalls == 5

\* the expressions given to setLogP: empty, parsing, not parsing
CtlExpressions == {"", "cliff", "wall", "bad"}

\* the seeds given to setSeed and to setSeed2
CtlSeeds == {<<0, 42>>}
CtlSeeds2 == {<<0, 7>>}

\* the n of sampleSteps(n)
CtlStepCounts == {0, 1, 3}

\* the positions given to setInitialPosition
CtlPositions == {Vec(-20, 0)}

\* the parameters given to setParams
CtlParams == {[epsilon |-> Undef, L |-> 2]}

\* what Math.random returns, call after call
CtlScripts == {<<<<1000, 0>>, <<20000, 0>>, <<40000, 0>>, <<60000, 0>>, UZero, <<8, 0>>,
                 <<50000, 0>>>>}

notController == <<gen, outs, rngHist, lf, hmc, sl, gb, sm, st>>

CtlInit ==
    /\ \E script \in CtlScripts :
          ctl = [h |-> Render(NewHook(script)), calls |-> 0,
                 last |-> [op |-> "mount", str |-> "", n |-> 0, threw |-> FALSE]]
    /\ gen = Unused
    /\ outs = Unused
    /\ rngHist = Unused
    /\ lf = Unused
    /\ hmc = Unused
    /\ sl = Unused
    /\ gb = Unused
    /\ sm = Unused
    /\ st = Unused

\* a step was called and the iteration not counted: it threw
CtlStepThrew(h) ==
    h.stepCalls /= ctl.h.stepCalls /\ h.iterationCount = ctl.h.iterationCount

\* ctl after a call that left the hook as h, rendered
CtlCalled(h, op, str, n) ==
    [h |-> Render(h), calls |-> ctl.calls + 1,
     last |-> [op |-> op, str |-> str, n |-> n, threw |-> CtlStepThrew(h)]]

CtlSetLogP ==
    /\ ctl.calls < MaxCalls
    /\ \E str \in CtlExpressions : ctl' = CtlCalled(SetLogP(ctl.h, str), "setLogP", str, 0)
    /\ UNCHANGED notController

CtlSetParams ==
    /\ ctl.calls < MaxCalls
    /\ \E newParams \in CtlParams :
          ctl' = CtlCalled(SetParams(ctl.h, newParams), "setParams", "", 0)
    /\ UNCHANGED notController

CtlSetSeed ==
    /\ ctl.calls < MaxCalls
    /\ \E newSeed \in CtlSeeds :
          ctl' = CtlCalled(HookSetSeed(ctl.h, newSeed), "setSeed", "", 0)
    /\ UNCHANGED notController

CtlSetSeed2 ==
    /\ ctl.calls < MaxCalls
    /\ \E newSeed \in CtlSeeds2 :
          ctl' = CtlCalled(HookSetSeed2(ctl.h, newSeed), "setSeed2", "", 0)
    /\ UNCHANGED notController

\* setInitialPosition(position)
CtlSetInitialPosition ==
    /\ ctl.calls < MaxCalls
    /\ \E position \in CtlPositions :
          ctl' = CtlCalled([ctl.h EXCEPT !.initialPosition = position],
                           "setInitialPosition", "", 0)
    /\ UNCHANGED notController

\* the checkbox of the second chain: setUseSecondChain(!useSecondChain)
CtlSetUseSecondChain ==
    /\ ctl.calls < MaxCalls
    /\ ctl' = CtlCalled([ctl.h EXCEPT !.useSecondChain = ~@], "setUseSecondChain", "", 0)
    /\ UNCHANGED notController

CtlReset ==
    /\ ctl.calls < MaxCalls
    /\ ~ctl.h.isRunning
    /\ ctl' = CtlCalled(Reset(ctl.h), "reset", "", 0)
    /\ UNCHANGED notController

CtlSampleSteps ==
    /\ ctl.calls < MaxCalls
    /\ ~ctl.h.isRunning
    /\ \E n \in CtlStepCounts :
          ctl' = CtlCalled(SampleSteps(ctl.h, n), "sampleSteps", "", n)
    /\ UNCHANGED notController

\* ctl after a frame that left the hook as h, rendered
CtlFramed(h) ==
    [ctl EXCEPT !.h = Render(h),
                !.last = [op |-> "frame", str |-> "", n |-> 0, threw |-> CtlStepThrew(h)]]

\* the next animation frame
CtlFrame ==
    /\ ctl.h.frames /= <<>>
    /\ ctl' = CtlFramed(Frame(ctl.h))
    /\ UNCHANGED notController

CtlNext ==
    \/ CtlSetLogP
    \/ CtlSetParams
    \/ CtlSetSeed
    \/ CtlSetSeed2
    \/ CtlSetInitialPosition
    \/ CtlSetUseSecondChain
    \/ CtlReset
    \/ CtlSampleSteps
    \/ CtlFrame

SpecController == CtlInit /\ [][CtlNext]_vars

\* this step ran executeStep: in the call of sampleSteps or in a frame
CtlIterated ==
    /\ ctl'.last.op \in {"frame", "sampleSteps"}
    /\ ctl'.h.stepCalls = ctl.h.stepCalls + 1

\* the closure that ran
CtlRan ==
    IF ctl'.last.op = "frame" THEN Head(ctl.h.frames)
    ELSE [n |-> ctl'.last.n, stepsCompleted |-> 0,
          useSecondChain |-> ctl.h.useSecondChain,
          from |-> [iterationCount |-> ctl.h.iterationCount,
                    stepCalls |-> ctl.h.stepCalls, stepCalls2 |-> ctl.h.stepCalls2]]

\* executeStep ran and a step threw: the iteration was not counted
CtlThrew == CtlIterated /\ ctl'.h.iterationCount = ctl.h.iterationCount

\* n when the closure stepped the second chain, otherwise 0
CtlSecondSteps(run, n) == IF run.useSecondChain THEN n ELSE 0

\* an iteration of a run that goes on leaves the closure in the queue
CtlGoesOn(run) ==
    /\ ctl'.h.isRunning
    /\ ctl'.h.frames /= <<>>
    /\ ctl'.h.frames[Len(ctl'.h.frames)] = [run EXCEPT !.stepsCompleted = @ + 1]

\* the n-th iteration of a run: the counters are n beyond those at its call
CtlEnds(run) ==
    /\ ~ctl'.h.isRunning
    /\ ctl'.h.iterationCount = run.from.iterationCount + run.n
    /\ ctl'.h.stepCalls = run.from.stepCalls + run.n
    /\ ctl'.h.stepCalls2 = run.from.stepCalls2 + CtlSecondSteps(run, run.n)

\* one iteration of the closure run, made in one scheduling unit
CtlOneIteration(run) ==
    /\ ctl'.h.stepCalls2 = ctl.h.stepCalls2 + CtlSecondSteps(run, 1)
    /\ IF run.stepsCompleted + 1 < run.n THEN CtlGoesOn(run) ELSE CtlEnds(run)

\* C12: a call sampleSteps(n), n >= 1, with a density set and no step
\* throwing makes exactly n iterations, one in the call and one per frame:
\* the iteration counter is then n higher than at the call, the sampler of
\* chain 1 has been stepped n times and that of chain 2 n times when the
\* second chain is enabled and not at all when it is not, and isRunning is
\* true as long as an iteration of the run is to come and false after the
\* n-th.
SampleStepsRunsToEnd ==
    /\ [](ctl.h.frames /= <<>> => ctl.h.isRunning)
    /\ [][(CtlIterated /\ ~CtlThrew /\ CtlRan.n >= 1) => CtlOneIteration(CtlRan)]_vars

\* the particle a step of this unit starts from: sampleSteps sets it to the
\* start where there is none
CtlParticle(ref, position) == IF ref = Null THEN StartState(position) ELSE ref

\* what the step of chain 1 in this unit returns
CtlStep1 ==
    ChainStep(ctl.h.samplerRef,
              CtlParticle(ctl.h.currentParticleRef, ctl.h.initialPosition),
              ctl.h.logpInstanceRef, ctl.h.math)

\* what the step of chain 2 returns, after that of chain 1 returned o
CtlStep2After(o) ==
    ChainStep(ctl.h.samplerRef2,
              CtlParticle(ctl.h.currentParticleRef2, ctl.h.initialPosition2),
              ctl.h.logpInstanceRef, o.math)

\* the effect of a step that returned res on a chain's samples, rejected
\* counter, trajectory and particle
CtlEffect(res, samples, samplesAfter, rejected, rejectedAfter, trajectoryAfter,
          particleAfter, refAfter) ==
    /\ res.accepted => samplesAfter = Append(samples, res.q) /\ rejectedAfter = rejected
    /\ ~res.accepted => samplesAfter = samples /\ rejectedAfter = rejected + 1
    /\ trajectoryAfter = res.trajectory
    /\ particleAfter.q = res.q /\ refAfter.q = res.q

\* chain 1 bears the effect of the step that returned o
CtlFirstCommitted(o) ==
    /\ ~o.thrown
    /\ CtlEffect(o.res, ctl.h.samples, ctl'.h.samples, ctl.h.rejectedCount,
                 ctl'.h.rejectedCount, ctl'.h.trajectory, ctl'.h.currentParticle,
                 ctl'.h.currentParticleRef)

\* chain 2 bears the effect of the step that returned o
CtlSecondCommitted(o) ==
    /\ ~o.thrown
    /\ CtlEffect(o.res, ctl.h.samples2, ctl'.h.samples2, ctl.h.rejectedCount2,
                 ctl'.h.rejectedCount2, ctl'.h.trajectory2, ctl'.h.currentParticle2,
                 ctl'.h.currentParticleRef2)

\* chain 2 is as it was
CtlSecondUntouched ==
    /\ ctl'.h.samples2 = ctl.h.samples2 /\ ctl'.h.rejectedCount2 = ctl.h.rejectedCount2
    /\ ctl'.h.trajectory2 = ctl.h.trajectory2
    /\ ctl'.h.currentParticle2 = ctl.h.currentParticle2

\* the effects of an iteration whose step of chain 1 returned o
CtlCommitted(o) ==
    /\ CtlFirstCommitted(o)
    /\ IF CtlRan.useSecondChain THEN CtlSecondCommitted(CtlStep2After(o))
       ELSE CtlSecondUntouched
    /\ ctl'.h.iterationCount = ctl.h.iterationCount + 1

\* C13: an iteration commits, for each chain it steps (chain 1, and chain 2
\* when the run has the second chain enabled): the step's q appended to the
\* chain's samples and the rejected counter unchanged when the step was
\* accepted, the samples unchanged and the rejected counter one higher when it
\* was rejected; the trajectory replaced by that of the step; the current
\* particle at the step's q; and the iteration counter one higher, whatever
\* the number of chains.
IterationCommits == [][(CtlIterated /\ ~CtlThrew) => CtlCommitted(CtlStep1)]_vars

\* a frame has just committed an accepted step of chain 1 and a rejected one
\* of chain 2, both chains holding samples and rejections from before
IterationCommitsWitness ==
    /\ ctl.last.op = "frame"
    /\ ctl.h.error = Null
    /\ ctl.h.iterationCount >= 2
    /\ Len(ctl.h.samples) >= 1 /\ ctl.h.rejectedCount >= 1
    /\ Len(ctl.h.samples2) >= 1 /\ ctl.h.rejectedCount2 >= 1
    /\ ctl.h.iterationCount = Len(ctl.h.samples) + ctl.h.rejectedCount
    /\ Len(ctl.h.trajectory) = ctl.h.params.L + 1
    /\ ctl.h.trajectory2[1] /= ctl.h.initialPosition2
    /\ ctl.h.currentParticle.q = ctl.h.samples[Len(ctl.h.samples)]

\* chain 1 is at its start
CtlFirstAtStart ==
    /\ ctl'.h.samples = <<>> /\ ctl'.h.trajectory = <<>> /\ ctl'.h.rejectedCount = 0
    /\ ctl'.h.currentParticle = [q |-> ctl.h.initialPosition, p |-> Vec(0, 0)]
    /\ ctl'.h.currentParticleRef = ctl'.h.currentParticle

\* chain 2 is at its start
CtlSecondAtStart ==
    /\ ctl'.h.samples2 = <<>> /\ ctl'.h.trajectory2 = <<>> /\ ctl'.h.rejectedCount2 = 0
    /\ ctl'.h.currentParticle2 = [q |-> ctl.h.initialPosition2, p |-> Vec(0, 0)]
    /\ ctl'.h.currentParticleRef2 = ctl'.h.currentParticle2

\* the density, the hyperparameters, the seeds and the initial positions are
\* as they were
CtlDefinitionKept ==
    /\ ctl'.h.logP = ctl.h.logP /\ ctl'.h.logpInstanceRef = ctl.h.logpInstanceRef
    /\ ctl'.h.contourData = ctl.h.contourData
    /\ ctl'.h.params = ctl.h.params
    /\ ctl'.h.samplerRef.epsilon = ctl.h.samplerRef.epsilon
    /\ ctl'.h.samplerRef.L = ctl.h.samplerRef.L
    /\ ctl'.h.samplerRef2.epsilon = ctl.h.samplerRef2.epsilon
    /\ ctl'.h.samplerRef2.L = ctl.h.samplerRef2.L
    /\ ctl'.h.seed = ctl.h.seed /\ ctl'.h.seed2 = ctl.h.seed2
    /\ ctl'.h.samplerRef.seed = ctl.h.samplerRef.seed
    /\ ctl'.h.samplerRef2.seed = ctl.h.samplerRef2.seed
    /\ ctl'.h.useSeededMode = ctl.h.useSeededMode
    /\ ctl'.h.initialPosition = ctl.h.initialPosition
    /\ ctl'.h.initialPosition2 = ctl.h.initialPosition2

\* C14: after reset() the samples and the trajectory of every enabled chain
\* are empty, its rejected counter is 0 and its current particle is at that
\* chain's initial position with momentum (0, 0); the iteration counter is 0,
\* isRunning is false and R-hat is null; the expression, the parsed oracle,
\* the contour data, the hyperparameters, the seeds and the initial positions
\* are as before.
ResetEffects ==
    [][ctl'.last.op = "reset" =>
          /\ CtlFirstAtStart
          /\ ctl.h.useSecondChain => CtlSecondAtStart
          /\ ctl'.h.iterationCount = 0 /\ ~ctl'.h.isRunning /\ ctl'.h.rHat = Null
          /\ CtlDefinitionKept]_vars

\* reset() has been called with two chains that had both been stepped, on a
\* density with contour data, from a start and with parameters set by calls
ResetEffectsWitness ==
    /\ ctl.last.op = "reset"
    /\ ctl.h.useSecondChain
    /\ ctl.h.stepCalls >= 2 /\ ctl.h.stepCalls2 >= 2
    /\ ctl.h.samples = <<>> /\ ctl.h.samples2 = <<>>
    /\ ctl.h.contourData /= Null /\ ctl.h.logpInstanceRef /= Null
    /\ ctl.h.initialPosition \in CtlPositions
    /\ ctl.h.currentParticle.q = ctl.h.initialPosition
    /\ ctl.h.currentParticle2.q = ctl.h.initialPosition2

\* reset() has put the generator of chain 1 back to the chain's seed, or,
\* there being no seed, has not called setSeed on its sampler
CtlFirstReseeded ==
    IF ctl.h.seed /= NullWord
    THEN ctl'.h.samplerRef.rng = NewSeededRandom(ctl.h.seed)
    ELSE ctl'.h.samplerRef = ctl.h.samplerRef

\* the same of chain 2
CtlSecondReseeded ==
    IF ctl.h.seed2 /= NullWord
    THEN ctl'.h.samplerRef2.rng = NewSeededRandom(ctl.h.seed2)
    ELSE ctl'.h.samplerRef2 = ctl.h.samplerRef2

\* C15: reset() puts the generator of every enabled chain that has a seed
\* back to that chain's own seed, whether or not the other chain has one, so
\* that the chain repeats what it did after the seed was set; for a chain
\* without a seed it makes no setSeed call.
ResetReseeds ==
    [][ctl'.last.op = "reset" =>
          /\ CtlFirstReseeded
          /\ ctl.h.useSecondChain => CtlSecondReseeded]_vars

\* what holds of chain 1 alone
ResetReseedsFirst == [][ctl'.last.op = "reset" => CtlFirstReseeded]_vars

\* the unit ends the run in error e: recorded, not running, the closure not
\* given to requestAnimationFrame again, the iteration not counted
CtlStopped(e) ==
    /\ ctl'.h.error = e
    /\ ~ctl'.h.isRunning
    /\ ctl'.h.frames = (IF ctl'.last.op = "frame" THEN Tail(ctl.h.frames) ELSE ctl.h.frames)
    /\ ctl'.h.iterationCount = ctl.h.iterationCount

\* the step of chain 1 threw: one call of step, none on chain 2, and chain 1
\* as it was
CtlFirstFailed(o) ==
    /\ CtlStopped(o.error)
    /\ ctl'.h.stepCalls = ctl.h.stepCalls + 1 /\ ctl'.h.stepCalls2 = ctl.h.stepCalls2
    /\ ctl'.h.samples = ctl.h.samples /\ ctl'.h.rejectedCount = ctl.h.rejectedCount
    /\ ctl'.h.trajectory = ctl.h.trajectory
    /\ ctl'.h.currentParticleRef
          = CtlParticle(ctl.h.currentParticleRef, ctl.h.initialPosition)

\* the step of chain 2 threw: one call of step, and chain 2 as it was
CtlSecondFailed(o) ==
    /\ CtlStopped(o.error)
    /\ ctl'.h.stepCalls2 = ctl.h.stepCalls2 + 1
    /\ ctl'.h.samples2 = ctl.h.samples2 /\ ctl'.h.rejectedCount2 = ctl.h.rejectedCount2
    /\ ctl'.h.trajectory2 = ctl.h.trajectory2
    /\ ctl'.h.currentParticleRef2
          = CtlParticle(ctl.h.currentParticleRef2, ctl.h.initialPosition2)

\* a throw of the step of chain 2, which returned or threw o, is handled
CtlSecondHandled(o) == o.thrown => CtlSecondFailed(o)

\* a throw in the unit is handled, o what the step of chain 1 returned or threw
CtlFailureHandled(o) ==
    IF o.thrown THEN CtlFirstFailed(o)
    ELSE CtlRan.useSecondChain => CtlSecondHandled(CtlStep2After(o))

\* C16: when the oracle throws during a chain's step the step returns no
\* result and is not called again; the controller records the error, sets
\* isRunning to false, schedules no further iteration of the run, and leaves
\* the failing chain's samples, rejected counter, trajectory and current
\* particle, and the iteration counter, as they were before the step.
OracleFailureFatal == [][CtlIterated => CtlFailureHandled(CtlStep1)]_vars

\* the second iteration of a run of more has thrown in a frame, on the
\* evaluation of the density: the first is kept, the run has stopped
OracleFailureFatalWitness ==
    /\ ctl.last.op = "frame" /\ ctl.last.threw
    /\ ctl.h.error = JsError("evaluate")
    /\ ~ctl.h.isRunning /\ ctl.h.frames = <<>>
    /\ ctl.h.useSecondChain
    /\ ctl.h.iterationCount = 1
    /\ Len(ctl.h.samples) + ctl.h.rejectedCount = 1
    /\ Len(ctl.h.samples2) + ctl.h.rejectedCount2 = 1

\* this unit is a call of sampleSteps made while no density is held
CtlSampledWithoutDensity ==
    ctl'.last.op = "sampleSteps" /\ ctl.h.logpInstanceRef = Null

\* no step was made and nothing was drawn or scheduled
CtlNoStep ==
    /\ ctl'.h.stepCalls = ctl.h.stepCalls /\ ctl'.h.stepCalls2 = ctl.h.stepCalls2
    /\ ctl'.h.samplerRef = ctl.h.samplerRef /\ ctl'.h.samplerRef2 = ctl.h.samplerRef2
    /\ ctl'.h.math = ctl.h.math
    /\ ctl'.h.frames = ctl.h.frames

\* the sampling state of both chains is as it was
CtlSamplingStateKept ==
    /\ ctl'.h.samples = ctl.h.samples /\ ctl'.h.samples2 = ctl.h.samples2
    /\ ctl'.h.trajectory = ctl.h.trajectory /\ ctl'.h.trajectory2 = ctl.h.trajectory2
    /\ ctl'.h.rejectedCount = ctl.h.rejectedCount
    /\ ctl'.h.rejectedCount2 = ctl.h.rejectedCount2
    /\ ctl'.h.currentParticle = ctl.h.currentParticle
    /\ ctl'.h.currentParticle2 = ctl.h.currentParticle2
    /\ ctl'.h.currentParticleRef = ctl.h.currentParticleRef
    /\ ctl'.h.currentParticleRef2 = ctl.h.currentParticleRef2
    /\ ctl'.h.iterationCount = ctl.h.iterationCount

\* C17: sampleSteps(n) called while no density is set performs no sampler
\* step: samples, trajectories, rejected counters, the current particles and
\* the iteration counter are unchanged, no error is recorded (error is what it
\* was), and isRunning is false after the call.
SampleStepsWithoutDensity ==
    [][CtlSampledWithoutDensity
         => /\ CtlNoStep
            /\ CtlSamplingStateKept
            /\ ctl'.h.error = ctl.h.error
            /\ ~ctl'.h.isRunning]_vars

\* sampleSteps has just been called with no density held, over samples of an
\* earlier run that a failed setLogP left in place
SampleStepsWithoutDensityWitness ==
    /\ ctl.last.op = "sampleSteps"
    /\ ctl.h.logpInstanceRef = Null
    /\ ctl.h.samples /= <<>>
    /\ ctl.h.iterationCount > 0
    /\ ~ctl.h.isRunning

\* the sampling state of every enabled chain is empty and the counter is 0
CtlSamplingStateEmpty ==
    /\ ctl'.h.samples = <<>> /\ ctl'.h.trajectory = <<>>
    /\ ctl'.h.useSecondChain => (ctl'.h.samples2 = <<>> /\ ctl'.h.trajectory2 = <<>>)
    /\ ctl'.h.iterationCount = 0

\* C19: every call of setLogP(str), with a valid expression, the empty string
\* or an expression that fails to parse, resets the sampling state:
\* afterwards samples and trajectory of every enabled chain are empty and the
\* iteration counter is 0.
SetLogPResets == [][ctl'.last.op = "setLogP" => CtlSamplingStateEmpty]_vars

\* the same for the calls whose expression is empty or parses
SetLogPResetsParsed ==
    [][(ctl'.last.op = "setLogP" /\ (ctl'.last.str = "" \/ LogpParses(ctl'.last.str)))
         => CtlSamplingStateEmpty]_vars

\* setLogP has been called with an expression that parses or with none, over
\* the samples of an earlier run, which are gone
SetLogPResetsParsedWitness ==
    /\ ctl.last.op = "setLogP"
    /\ ctl.last.str \in {"", "wall"}
    /\ ctl.h.samples = <<>> /\ ctl.h.iterationCount = 0
    /\ ctl.h.stepCalls > 0

-----------------------------------------------------------------------------
(* SpecDiagnostic: runs long enough for the R-hat effect to pass its tests.
   The calls are made between runs; the density is one on which steps are
   accepted. *)

MaxDiagnosticCalls == 5

\* the expressions given to setLogP
DgExpressions == {"flat"}

\* the n of sampleSteps(n): up to the burn-in, and past it
DgStepCounts == {1, 11}

DgSetLogP ==
    /\ ctl.calls < MaxDiagnosticCalls
    /\ ~ctl.h.isRunning
    /\ \E str \in DgExpressions : ctl' = CtlCalled(SetLogP(ctl.h, str), "setLogP", str, 0)
    /\ UNCHANGED notController

DgSetSeed ==
    /\ ctl.calls < MaxDiagnosticCalls
    /\ ~ctl.h.isRunning
    /\ \E newSeed \in CtlSeeds :
          ctl' = CtlCalled(HookSetSeed(ctl.h, newSeed), "setSeed", "", 0)
    /\ UNCHANGED notController

DgSetUseSecondChain ==
    /\ ctl.calls < MaxDiagnosticCalls
    /\ ~ctl.h.isRunning
    /\ ctl' = CtlCalled([ctl.h EXCEPT !.useSecondChain = ~@], "setUseSecondChain", "", 0)
    /\ UNCHANGED notController

DgReset ==
    /\ ctl.calls < MaxDiagnosticCalls
    /\ ~ctl.h.isRunning
    /\ ctl' = CtlCalled(Reset(ctl.h), "reset", "", 0)
    /\ UNCHANGED notController

DgSampleSteps ==
    /\ ctl.calls < MaxDiagnosticCalls
    /\ ~ctl.h.isRunning
    /\ \E n \in DgStepCounts :
          ctl' = CtlCalled(SampleSteps(ctl.h, n), "sampleSteps", "", n)
    /\ UNCHANGED notController

DgFrame ==
    /\ ctl.h.frames /= <<>>
    /\ ctl' = CtlFramed(Frame(ctl.h))
    /\ UNCHANGED notController

DgNext ==
    \/ DgSetLogP
    \/ DgSetSeed
    \/ DgSetUseSecondChain
    \/ DgReset
    \/ DgSampleSteps
    \/ DgFrame

SpecDiagnostic == CtlInit /\ [][DgNext]_vars

\* the entries of samples after the first burnIn
AfterBurnIn(samples) == [i \in 1..(Len(samples) - BurnIn) |-> samples[i + BurnIn]]

\* the R-hat effect passes its first test in the state reached
DgDiagnosticRead ==
    /\ ~ctl'.h.isRunning /\ ctl'.h.useSecondChain
    /\ Len(ctl'.h.samples) > BurnIn /\ Len(ctl'.h.samples2) > BurnIn

\* rHat is the diagnostic of the two chains without their first burnIn
\* entries, or null where fewer than two entries remain in one
DgDiagnosticOf(valid, valid2) ==
    ctl'.h.rHat = IF Len(valid) > 1 /\ Len(valid2) > 1
                  THEN CalculateGelmanRubin(JsArray(<<JsArray(valid), JsArray(valid2)>>))
                  ELSE Null

\* after is before, or before with one entry appended
DgGrown(before, after) ==
    /\ Len(after) \in {Len(before), Len(before) + 1}
    /\ SubSeq(after, 1, Len(before)) = before

\* the stored samples are those of the state before: as they were, with the
\* sample of this iteration appended, or emptied by reset() (of itself or in
\* setLogP)
DgSamplesStored ==
    IF ctl'.last.op \in {"reset", "setLogP"}
    THEN /\ ctl'.h.samples = <<>>
         /\ ctl'.h.samples2 = IF ctl.h.useSecondChain THEN <<>> ELSE ctl.h.samples2
    ELSE IF ctl'.last.op \in {"sampleSteps", "frame"}
    THEN /\ DgGrown(ctl.h.samples, ctl'.h.samples)
         /\ DgGrown(ctl.h.samples2, ctl'.h.samples2)
    ELSE ctl'.h.samples = ctl.h.samples /\ ctl'.h.samples2 = ctl.h.samples2

\* C18: burn-in is applied only when reading: the R-hat diagnostic is
\* computed from each chain's samples with the first burnIn entries excluded,
\* and computing it never removes, reorders or alters stored samples, which
\* are those of the state before, with at most the sample of the iteration
\* appended.
BurnInOnRead ==
    [][/\ DgSamplesStored
       /\ DgDiagnosticRead
             => DgDiagnosticOf(AfterBurnIn(ctl'.h.samples), AfterBurnIn(ctl'.h.samples2))]_vars

\* a run has ended with more than burnIn + 1 samples in each chain, the
\* diagnostic has been computed, and all the samples are stored
BurnInOnReadWitness ==
    /\ ctl.last.op \in {"sampleSteps", "frame"}
    /\ ~ctl.h.isRunning /\ ctl.h.useSecondChain
    /\ Len(ctl.h.samples) > BurnIn + 1 /\ Len(ctl.h.samples2) > BurnIn + 1
    /\ ctl.h.rHat /= Null
    /\ Len(ctl.h.samples) + ctl.h.rejectedCount = ctl.h.iterationCount

-----------------------------------------------------------------------------
(* SpecChains: three hooks that receive the same calls and frames.  `both`
   has the second chain enabled; `solo` has it disabled; `moved` has it
   enabled and chain 1 started from another position.  Calls are made
   between runs. *)

MaxTwinCalls == 5

\* the expressions given to setLogP
TwExpressions == {"cliff", "wall"}

\* the n of sampleSteps(n)
TwStepCounts == {1, 3}

\* the hook after setUseSecondChain(true)
TwEnabled(h) == [h EXCEPT !.useSecondChain = TRUE]

\* the hook after setInitialPosition(position)
TwMoved(h, position) == [h EXCEPT !.initialPosition = position]

TwInit ==
    /\ \E script \in CtlScripts, position \in CtlPositions :
          ctl = [both |-> Render(TwEnabled(NewHook(script))),
                 solo |-> Render(NewHook(script)),
                 moved |-> Render(TwMoved(TwEnabled(NewHook(script)), position)),
                 calls |-> 0, last |-> "mount"]
    /\ gen = Unused
    /\ outs = Unused
    /\ rngHist = Unused
    /\ lf = Unused
    /\ hmc = Unused
    /\ sl = Unused
    /\ gb = Unused
    /\ sm = Unused
    /\ st = Unused

\* no hook is running: the controls are enabled in all three
TwIdle == ~ctl.both.isRunning /\ ~ctl.solo.isRunning /\ ~ctl.moved.isRunning

\* ctl after a call that left the hooks as both, solo and moved
TwCalled(both, solo, moved, op) ==
    [both |-> Render(both), solo |-> Render(solo), moved |-> Render(moved),
     calls |-> ctl.calls + 1, last |-> op]

TwSetLogP ==
    /\ ctl.calls < MaxTwinCalls /\ TwIdle
    /\ \E str \in TwExpressions :
          ctl' = TwCalled(SetLogP(ctl.both, str), SetLogP(ctl.solo, str),
                          SetLogP(ctl.moved, str), "setLogP")
    /\ UNCHANGED notController

TwSetSeed ==
    /\ ctl.calls < MaxTwinCalls /\ TwIdle
    /\ \E newSeed \in CtlSeeds :
          ctl' = TwCalled(HookSetSeed(ctl.both, newSeed), HookSetSeed(ctl.solo, newSeed),
                          HookSetSeed(ctl.moved, newSeed), "setSeed")
    /\ UNCHANGED notController

TwSetSeed2 ==
    /\ ctl.calls < MaxTwinCalls /\ TwIdle
    /\ \E newSeed \in CtlSeeds2 :
          ctl' = TwCalled(HookSetSeed2(ctl.both, newSeed), HookSetSeed2(ctl.solo, newSeed),
                          HookSetSeed2(ctl.moved, newSeed), "setSeed2")
    /\ UNCHANGED notController

TwReset ==
    /\ ctl.calls < MaxTwinCalls /\ TwIdle
    /\ ctl' = TwCalled(Reset(ctl.both), Reset(ctl.solo), Reset(ctl.moved), "reset")
    /\ UNCHANGED notController

TwSampleSteps ==
    /\ ctl.calls < MaxTwinCalls /\ TwIdle
    /\ \E n \in TwStepCounts :
          ctl' = TwCalled(SampleSteps(ctl.both, n), SampleSteps(ctl.solo, n),
                          SampleSteps(ctl.moved, n), "sampleSteps")
    /\ UNCHANGED notController

\* the hook after the next animation frame, if it has requested one
TwFramed(h) == IF h.frames = <<>> THEN h ELSE Render(Frame(h))

TwFrame ==
    /\ ctl.both.frames /= <<>> \/ ctl.solo.frames /= <<>> \/ ctl.moved.frames /= <<>>
    /\ ctl' = [ctl EXCEPT !.both = TwFramed(@), !.solo = TwFramed(@), !.moved = TwFramed(@),
                          !.last = "frame"]
    /\ UNCHANGED notController

TwNext ==
    \/ TwSetLogP
    \/ TwSetSeed
    \/ TwSetSeed2
    \/ TwReset
    \/ TwSampleSteps
    \/ TwFrame

SpecChains == TwInit /\ [][TwNext]_vars

\* what chain 1 of a hook holds, with the run it is in
TwFirst(h) ==
    [samples |-> h.samples, trajectory |-> h.trajectory, rejectedCount |-> h.rejectedCount,
     currentParticle |-> h.currentParticle, currentParticleRef |-> h.currentParticleRef,
     samplerRef |-> h.samplerRef, stepCalls |-> h.stepCalls,
     iterationCount |-> h.iterationCount, isRunning |-> h.isRunning,
     pending |-> Len(h.frames)]

\* what chain 2 of a hook holds, with the run it is in
TwSecond(h) ==
    [samples |-> h.samples2, trajectory |-> h.trajectory2, rejectedCount |-> h.rejectedCount2,
     currentParticle |-> h.currentParticle2, currentParticleRef |-> h.currentParticleRef2,
     samplerRef |-> h.samplerRef2, stepCalls |-> h.stepCalls2,
     iterationCount |-> h.iterationCount, isRunning |-> h.isRunning,
     pending |-> Len(h.frames)]

\* in this unit a step of the hook threw
TwThrew(before, after) ==
    /\ after.stepCalls /= before.stepCalls \/ after.stepCalls2 /= before.stepCalls2
    /\ after.iterationCount = before.iterationCount

\* in this unit no step of any hook threw
TwNoFailure ==
    /\ ~TwThrew(ctl.both, ctl'.both)
    /\ ~TwThrew(ctl.solo, ctl'.solo)
    /\ ~TwThrew(ctl.moved, ctl'.moved)

\* the chain has been given a seed
TwSeeded(seed) == seed /= NullWord

\* chain 1 is the same with the second chain enabled and disabled
TwFirstAlike == TwFirst(ctl.both) = TwFirst(ctl.solo)

\* chain 2 is the same whatever chain 1 started from
TwSecondAlike == TwSecond(ctl.both) = TwSecond(ctl.moved)

\* C20: the chains do not interfere.  With chain 1 seeded and no oracle
\* failure, chain 1's step results, samples, rejected counter and particle stay
\* identical between the run with the second chain enabled and the same run
\* with it disabled, call after call and frame after frame; and with chain 2
\* seeded, chain 2 stays identical between runs in which chain 1 holds
\* different particles, samples, trajectories and counters.
ChainsIndependent ==
    /\ [][(TwFirstAlike /\ TwSeeded(ctl'.both.seed) /\ TwNoFailure)
             => TwFirstAlike']_vars
    /\ [][(TwSecondAlike /\ TwSeeded(ctl'.both.seed2) /\ TwNoFailure)
             => TwSecondAlike']_vars

\* a run of three iterations has ended with both chains seeded: chain 1 is
\* as in the hook without a second chain, chain 2 as in the hook whose chain
\* 1 is elsewhere, and the chains differ
ChainsIndependentWitness ==
    /\ ctl.last = "frame"
    /\ TwSeeded(ctl.both.seed) /\ TwSeeded(ctl.both.seed2)
    /\ ctl.both.error = Null
    /\ ~ctl.both.isRunning /\ ctl.both.iterationCount = 3
    /\ ctl.both.stepCalls = 3 /\ ctl.both.stepCalls2 = 3
    /\ TwFirstAlike /\ TwSecondAlike
    /\ ctl.both.samples /= <<>> /\ ctl.both.samples2 /= <<>>
    /\ ctl.solo.samples2 = <<>>
    /\ ctl.moved.samples /= ctl.both.samples

-----------------------------------------------------------------------------
(* SpecParams: one HMCSampler, constructed with its parameters, given new
   ones by setParams, reseeded, and stepped on the particle a caller keeps:
   the q and p of the result before. *)

MaxPmCalls == 3

\* the L given to the constructor: none, 0, 1, 2
PmLs == {Undef, 0, 1, 2}

\* the parameters given to setParams
PmParams == {[epsilon |-> Undef, L |-> 0], [epsilon |-> Undef, L |-> 2],
             [epsilon |-> 4, L |-> Undef]}

PmSeeds == {NullWord, <<0, 42>>}

PmOracles == {"flat", "cliff", "quartic"}

PmStarts == {Vec(0, 0), Vec(20, 20)}

\* momenta a caller may hand over with the position
PmMomenta == {Vec(0, 0), Vec(3, -1)}

\* what Math.random returns, call after call
PmScripts == {<<<<1000, 0>>, <<20000, 0>>, <<40000, 0>>, <<60000, 0>>, <<30000, 0>>, UZero,
                <<50000, 0>>>>}

\* a step that starts its trajectory with the momentum handed over, after
\* the four draws of the momentum
HmcSamplerStepKeepsMomentum(s, currentState, orc, m) ==
    HmcDecide(currentState.q,
              ProposalFrom(currentState.q, s.epsilon, s.L, orc, currentState.p,
                           AfterDraws([rng |-> s.rng, math |-> m], 4)))

\* step(currentState, logPInstance) of HMCSampler: what hmcStep returns, with
\* the proposal and the source afterwards
HmcSamplerStep(s, currentState, orc, m) ==
    HmcStep(currentState.q, s.epsilon, s.L, orc, [rng |-> s.rng, math |-> m])

PmInit ==
    /\ \E L \in PmLs, seed \in PmSeeds, orc \in PmOracles, q \in PmStarts,
          script \in PmScripts :
          sm = [s |-> NewHMCSampler([epsilon |-> DefaultEpsilon, L |-> L], seed),
                asked |-> L, by |-> "constructor",
                state |-> [q |-> q, p |-> Vec(0, 0)], orc |-> orc,
                math |-> [seq |-> script, pos |-> 1],
                from |-> Unused, before |-> Unused, out |-> Unused, twin |-> Unused,
                calls |-> 0]
    /\ gen = Unused
    /\ outs = Unused
    /\ rngHist = Unused
    /\ lf = Unused
    /\ hmc = Unused
    /\ sl = Unused
    /\ gb = Unused
    /\ st = Unused
    /\ ctl = Unused

\* sampler.setParams(params)
PmSetParams ==
    /\ sm.calls < MaxPmCalls
    /\ \E params \in PmParams :
          sm' = [sm EXCEPT !.s = SamplerSetParams(@, params),
                           !.asked = IF params.L /= Undef THEN params.L ELSE @,
                           !.by = IF params.L /= Undef THEN "setParams" ELSE @,
                           !.out = Unused, !.twin = Unused, !.from = Unused,
                           !.before = Unused, !.calls = @ + 1]
    /\ UNCHANGED notSamplers

\* sampler.setSeed(seed)
PmSetSeed ==
    /\ sm.calls < MaxPmCalls
    /\ \E seed \in PmSeeds :
          sm' = [sm EXCEPT !.s = SamplerSetSeed(@, seed),
                           !.out = Unused, !.twin = Unused, !.from = Unused,
                           !.before = Unused, !.calls = @ + 1]
    /\ UNCHANGED notSamplers

\* sm after step returned out, and twin what it returns on the other momentum
PmStepped(out, twin) ==
    [sm EXCEPT !.s = [@ EXCEPT !.rng = out.src.rng], !.math = out.src.math,
               !.from = sm.state, !.before = [rng |-> sm.s.rng, math |-> sm.math],
               !.out = out, !.twin = twin,
               !.state = [q |-> out.res.q, p |-> out.res.p],
               !.calls = @ + 1]

\* sampler.step(state, logP); the same call is made with the momentum of
\* the state replaced by another
PmStep ==
    /\ sm.calls < MaxPmCalls
    /\ \E other \in PmMomenta \ {sm.state.p} :
          sm' = PmStepped(HmcSamplerStep(sm.s, sm.state, sm.orc, sm.math),
                          HmcSamplerStep(sm.s, [sm.state EXCEPT !.p = other],
                                         sm.orc, sm.math))
    /\ UNCHANGED notSamplers

PmNext ==
    \/ PmSetParams
    \/ PmSetSeed
    \/ PmStep

SpecParams == PmInit /\ [][PmNext]_vars

\* the step made no leapfrog step: one point, the energies equal, accepted
\* at the start
PmNoLeapfrog ==
    /\ sm.out.res.trajectory = <<sm.from.q>>
    /\ sm.out.proposal.H_proposed = sm.out.proposal.H_initial
    /\ sm.out.res.accepted
    /\ sm.out.res.q = sm.from.q

\* C21: with L = 0, given to the constructor or set later through setParams,
\* a step performs no leapfrog step: the trajectory has exactly one point (the
\* start), the proposed Hamiltonian equals the initial one, and the step is
\* accepted with q equal to the start position.
ZeroLNoLeapfrog == (sm.out /= Unused /\ sm.asked = 0) => PmNoLeapfrog

\* with L = 0 set through setParams the trajectory is the start alone and the
\* step returns the start, accepted where the energy is a finite number
ZeroLSetLater ==
    (sm.out /= Unused /\ sm.asked = 0 /\ sm.by = "setParams")
        => /\ sm.out.res.trajectory = <<sm.from.q>>
           /\ sm.out.res.q = sm.from.q
           /\ IsFinite(sm.out.proposal.H_initial) => PmNoLeapfrog

ZeroLSetLaterWitness ==
    /\ sm.out /= Unused /\ sm.asked = 0 /\ sm.by = "setParams"
    /\ sm.out.res.accepted

\* the momentum of the two randn calls made first on the source
PmDrawnMomentum(px) == Vec(px[1], Randn(px[2])[1])

\* the trajectory begins with a leapfrog step from the start under the
\* momentum drawn
PmStartsFrom(p_initial) ==
    sm.s.L >= 1 =>
        sm.out.res.trajectory[2]
            = LeapfrogStep(sm.from.q, p_initial, sm.s.epsilon, sm.orc).q

\* C22: momentum never persists across HMC steps: step(state, oracle) with
\* equal q, equal parameters and equal RNG state but a different incoming
\* momentum returns the identical result and leaves the same RNG state, and
\* the initial momentum is the pair of normal values drawn from the sampler's
\* source before the first leapfrog step, which starts from it.
MomentumFresh ==
    sm.out /= Unused =>
        /\ sm.out.res = sm.twin.res
        /\ sm.out.src = sm.twin.src
        /\ sm.out.proposal.p_initial = PmDrawnMomentum(Randn(sm.before))
        /\ PmStartsFrom(sm.out.proposal.p_initial)

\* a step from the particle an accepted step returned, its momentum not
\* zero, has moved under a momentum that is not the one handed over
MomentumFreshWitness ==
    /\ sm.out /= Unused
    /\ sm.from.p /= Vec(0, 0)
    /\ sm.s.L >= 1
    /\ sm.out.res.accepted
    /\ sm.out.proposal.p_initial /= sm.from.p
    /\ sm.out.res.q /= sm.from.q

-----------------------------------------------------------------------------
(* SpecRng: the width of the state *)

\* C23: the state of a SeededRandom is a 32-bit integer in every reachable
\* state: after any number of random()/randn() draws and setSeed calls both
\* 16-bit halves of the stored state are within 0 .. 2^16 - 1, the increment
\* by 0x6D2B79F5 wrapping around modulo 2^32.
StateIs32Bit ==
    /\ gen.state[1] \in 0..(Half16 - 1)
    /\ gen.state[2] \in 0..(Half16 - 1)

\* the values returned are those of the state taken modulo 2^32
OutputsOf32Bits ==
    [][Len(outs') = Len(outs) + 1
         => outs'[Len(outs')] = Mulberry32(ToUint32(StateAfterDraw(ToUint32(gen.state))))]_vars

-----------------------------------------------------------------------------
(* SpecHmc: the momentum drawn *)

\* C24: randn never evaluates ln(0): a first uniform draw u1 that is exactly
\* 0 is guarded away from 0, so both momentum components drawn in an HMC
\* step are finite, never +/-Infinity or NaN.
RandnFinite == hmc.done => FiniteVec(hmc.out.proposal.p_initial)

\* the momentum is finite whenever no first draw of a pair is exactly 0
RandnFiniteUnlessZero ==
    (hmc.done /\ Draw(hmc.src)[1] /= UZero /\ Draw(AfterDraws(hmc.src, 2))[1] /= UZero)
        => FiniteVec(hmc.out.proposal.p_initial)

-----------------------------------------------------------------------------
(* SpecController: the order of the steps in an iteration *)

\* chain 2 was stepped once, on Math.random as chain 1 left it, its step
\* returning or throwing o
CtlSecondAfter(o) ==
    /\ ctl'.h.stepCalls2 = ctl.h.stepCalls2 + 1
    /\ ctl'.h.samplerRef2 = o.sampler
    /\ ctl'.h.math = o.math
    /\ ~o.thrown => CtlSecondCommitted(o)

\* chain 1 was stepped first, its step returning or throwing o: chain 2 was
\* not stepped if it threw, and otherwise stepped after chain 1 was committed
CtlInOrder(o) ==
    /\ ctl'.h.samplerRef = o.sampler
    /\ IF o.thrown
       THEN ctl'.h.stepCalls2 = ctl.h.stepCalls2 /\ ctl'.h.math = o.math
       ELSE CtlFirstCommitted(o) /\ CtlSecondAfter(CtlStep2After(o))

\* C25: steps are strictly sequential within an iteration: when the second
\* chain is enabled, chain 1's step is invoked and its result committed before
\* chain 2's step is invoked, each iteration calling chain 1 once and then
\* chain 2 once, and chain 2 is never stepped in an iteration before chain 1
\* or without it.
StepsSequential ==
    /\ [][(CtlIterated /\ CtlRan.useSecondChain) => CtlInOrder(CtlStep1)]_vars
    /\ [][(ctl'.h.stepCalls2 /= ctl.h.stepCalls2) => CtlIterated]_vars

\* a frame has stepped both chains, both drawing from Math.random, after an
\* earlier iteration of the same kind
StepsSequentialWitness ==
    /\ ctl.last.op = "frame" /\ ~ctl.last.threw
    /\ ctl.h.useSecondChain
    /\ ctl.h.seed = NullWord /\ ctl.h.seed2 = NullWord
    /\ ctl.h.stepCalls >= 2 /\ ctl.h.stepCalls2 = ctl.h.stepCalls
    /\ ctl.h.samples /= <<>> /\ ctl.h.samples2 /= <<>>

-----------------------------------------------------------------------------
(* SpecController: the counters *)

\* C26: in every reachable state of the controller the iteration counter
\* equals the length of samples plus the rejected counter of chain 1.
CounterIsAcceptedPlusRejected ==
    ctl.h.iterationCount = Len(ctl.h.samples) + ctl.h.rejectedCount

\* the same in the units in which no step of chain 2 throws
CounterKeptUnlessSecondThrows ==
    [][(CounterIsAcceptedPlusRejected
          /\ ~(CtlIterated /\ CtlThrew /\ ctl'.h.stepCalls2 /= ctl.h.stepCalls2))
         => CounterIsAcceptedPlusRejected']_vars

-----------------------------------------------------------------------------
(* SpecController: what happens while isRunning is false *)

\* nothing of the sampling state is committed in this unit
CtlNothingCommitted ==
    /\ CtlNoStep
    /\ CtlSamplingStateKept

\* C27: isRunning is false only when no run has iterations outstanding:
\* once reset() has been called or a run has finished, no further transition
\* is committed until sampleSteps is called again, so an animation frame that
\* comes while isRunning is false steps no sampler and changes no samples,
\* counters or particles.
StoppedMeansNothingPending ==
    [][(~ctl.h.isRunning /\ ctl'.last.op = "frame") => CtlNothingCommitted]_vars

\* a run that no call interrupts leaves no frame behind when it stops
StoppedAfterWholeRun ==
    [][(ctl'.last.op \in {"frame", "sampleSteps"} /\ Len(ctl.h.frames) <= 1
          /\ ctl.h.isRunning = (ctl.h.frames /= <<>>) /\ ~ctl'.h.isRunning)
         => ctl'.h.frames = <<>>]_vars

-----------------------------------------------------------------------------
(* SpecController: reset() and the second chain *)

\* chain 2 holds nothing from before: no samples, trajectory or rejections,
\* and its particle, if it has one, at the initial position
CtlSecondCleared ==
    /\ ctl'.h.samples2 = <<>> /\ ctl'.h.trajectory2 = <<>>
    /\ ctl'.h.rejectedCount2 = 0
    /\ ctl'.h.currentParticleRef2 \in {Null, StartState(ctl.h.initialPosition2)}
    /\ ctl'.h.currentParticle2 \in {Null, StartState(ctl.h.initialPosition2)}

\* C28: reset() clears chain 2 whether or not the second chain is currently
\* enabled: after reset(), samples2 and trajectory2 are empty, rejectedCount2
\* is 0 and chain 2's particle is back at its initial position.
ResetClearsSecond == [][ctl'.last.op = "reset" => CtlSecondCleared]_vars

\* reset() with the second chain disabled leaves chain 2 as it is
ResetSkipsDisabledSecond ==
    [][(ctl'.last.op = "reset" /\ ~ctl.h.useSecondChain)
         => /\ CtlSecondUntouched
            /\ ctl'.h.currentParticleRef2 = ctl.h.currentParticleRef2]_vars

-----------------------------------------------------------------------------
(* SpecController: sampleSteps(0) *)

\* no sampler was stepped and samples and counters are as they were
CtlNoTransition ==
    /\ ctl'.h.stepCalls = ctl.h.stepCalls /\ ctl'.h.stepCalls2 = ctl.h.stepCalls2
    /\ ctl'.h.samples = ctl.h.samples /\ ctl'.h.samples2 = ctl.h.samples2
    /\ ctl'.h.rejectedCount = ctl.h.rejectedCount
    /\ ctl'.h.rejectedCount2 = ctl.h.rejectedCount2
    /\ ctl'.h.iterationCount = ctl.h.iterationCount

\* C29: sampleSteps(0) commits no transition: no sampler step is invoked,
\* samples and counters are unchanged, the iteration counter does not
\* increase, and isRunning is false afterwards.
SampleStepsZero ==
    [][(ctl'.last.op = "sampleSteps" /\ ctl'.last.n = 0)
         => CtlNoTransition /\ ~ctl'.h.isRunning]_vars

\* sampleSteps(0) leaves the hook as sampleSteps(1) does
SampleStepsZeroAsOne ==
    [][(ctl'.last.op = "sampleSteps" /\ ctl'.last.n = 0)
         => ctl'.h = Render(SampleSteps(ctl.h, 1))]_vars

=============================================================================
